---- MODULE Spec2Model ----
(***************************************************************************)
(* The build worker of src/worker/src/main.py: one build request handled   *)
(* by handle_build, through process_apk_build or process_source_build,     *)
(* with the keystore manager (ensure_keystore, sign_apk, zipalign_apk),    *)
(* the best-effort bundle conversion (_convert_apk_to_aab) and the         *)
(* progress reporter (append_logs).                                        *)
(*                                                                         *)
(* A step of the model is the code between two awaits: the awaited call    *)
(* and the synchronous code that follows it.                               *)
(*                                                                         *)
(* Specifications:                                                         *)
(*   Spec          one build, from the request to the return               *)
(*   SignSpec      sign_apk called on its own                              *)
(*   FlavorSpec    a build, then a later build of the same flavor          *)
(*   RaceSpec      two builds of one flavor in the signing stage at once   *)
(*   ManifestSpec  apply_manifest_changes called on its own                *)
(*   NameSpec      apply_app_name called repeatedly                        *)
(*   ColorSpec     _darken_hex called on its own                           *)
(*   OverrideSpec  apply_custom_overrides called on its own                *)
(*                                                                         *)
(* Text (exception messages, tool output, log messages) is a sequence of   *)
(* tokens:                                                                 *)
(*   "u"  an http:// or https:// URL (the scheme and at least one          *)
(*        character that is not whitespace, a quote or '>')                *)
(*   "c"  a run of characters that are none of whitespace, quote, '>'      *)
(*   "d"  a delimiter: whitespace, a quote or '>'                          *)
(*   "R"  the literal [REDACTED_URL]                                       *)
(***************************************************************************)
EXTENDS Integers, Sequences, FiniteSets, TLC

\* Longest output (in tokens) an external tool prints before it exits.
MaxOut == 1

--------------------------------------------------------------------------
(* Text *)

Tokens == {"u", "c", "d"}

NonDelim == {"u", "c", "R"}

Texts(n) == UNION {[1..k -> Tokens] : k \in 0..n}

ToolOutputs == Texts(MaxOut)

\* A text holds a URL.
ContainsUrl(t) == \E i \in 1..Len(t) : t[i] = "u"

\* The first position at or after i that holds a delimiter (Len(t)+1 if none).
RECURSIVE RunEnd(_, _)
RunEnd(t, i) ==
  IF i > Len(t) \/ t[i] \notin NonDelim THEN i ELSE RunEnd(t, i + 1)

RECURSIVE SanitizeFrom(_, _)
SanitizeFrom(t, i) ==
  IF i > Len(t) THEN <<>>
  ELSE IF t[i] = "u" THEN <<"R">> \o SanitizeFrom(t, RunEnd(t, i))
  ELSE <<t[i]>> \o SanitizeFrom(t, i + 1)

\* re.sub(r'https?://[^\s"\'>]+', '[REDACTED_URL]', msg): a URL and the
\* non-delimiter characters that follow it become one [REDACTED_URL].
_sanitize_log(msg) == SanitizeFrom(msg, 1)

\* str(exc) of an httpx transport error (no URL in its message).
TransportErrText == <<"c">>

\* str(exc) of a failed download or upload: a transport error, or a status
\* error that names the URL in quotes.
IOErrTexts == {<<"c">>, <<"c", "d", "u", "d">>}

\* str(KeyError('keystorePassword')).
KeyErrText == <<"d", "c", "d">>

\* A RuntimeError raised by the worker itself with a fixed message.
FixedErrText == <<"c">>

--------------------------------------------------------------------------
(* Strings of the decompiled tree and of the configuration: sequences of
   characters.  The search of an override and the package names are taken
   not to occur in the XML markup itself. *)

\* Longest attribute value or file content (in characters).
MaxStr == 3

Chars == {"a", "b"}

Strs(n) == UNION {[1..k -> Chars] : k \in 0..n}

\* sub occurs in s at position i.
Occurs(sub, s, i) ==
  /\ i + Len(sub) - 1 <= Len(s)
  /\ SubSeq(s, i, i + Len(sub) - 1) = sub

\* Python's sub in s, for a non-empty sub.
Contains(sub, s) == \E i \in 1..Len(s) : Occurs(sub, s, i)

RECURSIVE ReplaceFrom(_, _, _, _)
ReplaceFrom(s, old, new, i) ==
  IF i > Len(s) THEN <<>>
  ELSE IF Occurs(old, s, i) THEN new \o ReplaceFrom(s, old, new, i + Len(old))
  ELSE <<s[i]>> \o ReplaceFrom(s, old, new, i + 1)

\* Python's s.replace(old, new) for a non-empty old: every occurrence,
\* found from the left, none overlapping another.
replace(s, old, new) == ReplaceFrom(s, old, new, 1)

DecimalDigits == <<"0", "1", "2", "3", "4", "5", "6", "7", "8", "9">>

\* str(n) of a non-negative int.
RECURSIVE str(_)
str(n) ==
  IF n < 10 THEN <<DecimalDigits[n + 1]>>
  ELSE str(n \div 10) \o <<DecimalDigits[(n % 10) + 1]>>

--------------------------------------------------------------------------
(* The manifest of the decompiled tree *)

\* A configuration field: given with a value, or missing (None).
Some(v) == [given |-> TRUE, v |-> v]
NoInt == [given |-> FALSE, v |-> 0]
NoStr == [given |-> FALSE, v |-> <<>>]

\* Package names of the model; the first is a prefix of the second.
Packages == {<<"a">>, <<"a", "b">>, <<"b", "a">>}

PermissionTags == {"permission", "permission-group", "permission-tree"}

\* The elements below the manifest root the model tells apart: the four
\* permission elements with their android:name, a provider with
\* android:name (a class name) and android:authorities, and an activity
\* for every other element.  A missing attribute reads as "".
Elements ==
  [tag : PermissionTags \cup {"uses-permission", "activity"},
   name : Strs(MaxStr), authorities : {<<>>}]
  \cup [tag : {"provider"}, name : Strs(MaxStr), authorities : Strs(MaxStr)]

\* AndroidManifest.xml: the root's package (the empty string when the
\* attribute is missing), android:versionCode, android:versionName, and
\* one element below the root.
Manifests ==
  [package : Packages \cup {<<>>}, versionCode : {<<"1">>}, versionName : {<<"a">>},
   elem : Elements]

\* config["app"], the fields apply_manifest_changes reads: versionCode 0
\* and an empty versionName are values, not None.
AppConfigs ==
  [versionCode : {NoInt, Some(0), Some(7)},
   versionName : {NoStr, Some(<<>>), Some(<<"b">>)},
   applicationId : {NoStr, Some(<<>>)} \cup {Some(p) : p \in Packages}]

\* A rename that leaves the provider authorities alone.
RenamePackage_NamesOnly(e, old_package, new_package) ==
  IF e.tag \in {"permission", "permission-group", "permission-tree", "uses-permission"}
       /\ \E i \in 1..Len(e.name) : Occurs(old_package, e.name, i)
  THEN [e EXCEPT !.name = ReplaceFrom(@, old_package, new_package, 1)]
  ELSE e

\* The three loops of apply_manifest_changes over the elements: android:name
\* of the permission elements and of uses-permission, android:authorities of
\* provider; a value that holds the old package has it replaced.
RenamePackage(e, old_package, new_package) ==
  IF e.tag \in PermissionTags \cup {"uses-permission"}
  THEN IF Contains(old_package, e.name)
       THEN [e EXCEPT !.name = replace(@, old_package, new_package)] ELSE e
  ELSE IF e.tag = "provider"
  THEN IF Contains(old_package, e.authorities)
       THEN [e EXCEPT !.authorities = replace(@, old_package, new_package)] ELSE e
  ELSE e

\* A patcher that writes the three attributes whatever the configuration
\* holds.
apply_manifest_changes_Unconditional(m, app_config) ==
  [m EXCEPT !.versionCode = str(app_config.versionCode.v),
            !.versionName = app_config.versionName.v,
            !.package = app_config.applicationId.v,
            !.elem = IF m.package # <<>> /\ m.package # app_config.applicationId.v
                        /\ app_config.applicationId.v # <<>>
                     THEN RenamePackage(@, m.package, app_config.applicationId.v) ELSE @]

\* apply_manifest_changes(decompiled_dir, config) on the parsed manifest.
apply_manifest_changes(m, app_config) ==
  LET m1 == IF app_config.versionCode.given
            THEN [m EXCEPT !.versionCode = str(app_config.versionCode.v)] ELSE m
      m2 == IF app_config.versionName.given
            THEN [m1 EXCEPT !.versionName = app_config.versionName.v] ELSE m1
      old_package == m.package
      new_package == app_config.applicationId.v
  IN IF app_config.applicationId.given /\ new_package # <<>>
     THEN IF old_package # <<>> /\ old_package # new_package
          THEN [m2 EXCEPT !.package = new_package,
                          !.elem = RenamePackage(@, old_package, new_package)]
          ELSE [m2 EXCEPT !.package = new_package]
     ELSE m2

--------------------------------------------------------------------------
(* apply_custom_overrides *)

\* The files of the tree the model tells apart: two string tables, a layout
\* (XML, not a string table), the manifest, and a file that is not XML.
StringTables == {"res/values/strings.xml", "res/values-fr/strings.xml"}
XmlFiles == StringTables \cup {"res/layout/main.xml", "AndroidManifest.xml"}
TreeFiles == XmlFiles \cup {"smali/Main.smali"}

\* A string override that reaches every XML file.
GlobStrings_AllXml(path) == path \in XmlFiles

\* decompiled_dir.rglob("strings.xml") and decompiled_dir.rglob("*.xml").
GlobStrings(path) == path \in StringTables
GlobXml(path) == path \in XmlFiles

\* One override on the content of one file.
OverrideContent(path, content, override) ==
  IF override.search = <<>> THEN content
  ELSE IF \/ override.type = "string" /\ GlobStrings(path)
          \/ override.type = "resource" /\ GlobXml(path)
  THEN IF Contains(override.search, content)
       THEN replace(content, override.search, override.replace) ELSE content
  ELSE content

\* A loop that ends at the first override without a search text.
RECURSIVE OverrideFrom_StopAtEmpty(_, _, _, _)
OverrideFrom_StopAtEmpty(path, content, overrides, i) ==
  IF i > Len(overrides) \/ overrides[i].search = <<>> THEN content
  ELSE OverrideFrom_StopAtEmpty(path, OverrideContent(path, content, overrides[i]),
                                overrides, i + 1)

\* A loop that runs the list from its last override to its first.
RECURSIVE OverrideFrom_Backwards(_, _, _, _)
OverrideFrom_Backwards(path, content, overrides, i) ==
  IF i > Len(overrides) THEN content
  ELSE OverrideContent(path, OverrideFrom_Backwards(path, content, overrides, i + 1),
                       overrides[i])

\* The overrides of the list from position i on, in list order.
RECURSIVE OverrideFrom(_, _, _, _)
OverrideFrom(path, content, overrides, i) ==
  IF i > Len(overrides) THEN content
  ELSE OverrideFrom(path, OverrideContent(path, content, overrides[i]), overrides, i + 1)

\* apply_custom_overrides(decompiled_dir, overrides) on the files of a tree
\* (file -> content).
apply_custom_overrides(tree, overrides) ==
  [path \in DOMAIN tree |-> OverrideFrom(path, tree[path], overrides, 1)]

\* The override on the manifest: each attribute value is a part of the
\* file's text.
OverrideManifest(m, overrides) ==
  LET over(text) == apply_custom_overrides([p \in {"AndroidManifest.xml"} |-> text],
                                           overrides)["AndroidManifest.xml"]
  IN [package |-> over(m.package), versionCode |-> over(m.versionCode),
      versionName |-> over(m.versionName),
      elem |-> [tag |-> m.elem.tag, name |-> over(m.elem.name),
                authorities |-> over(m.elem.authorities)]]

--------------------------------------------------------------------------
(* The request *)

SigningFields == {"keystoreUrl", "keystorePassword", "keyPassword", "keyAlias", "dname"}

Absent == "absent"

\* The value the request gives a signing field.
FieldValue(f) ==
  CASE f = "keystoreUrl" -> "req_keystore_url"
    [] f = "keystorePassword" -> "req_store_pass"
    [] f = "keyPassword" -> "req_key_pass"
    [] f = "keyAlias" -> "req_alias"
    [] OTHER -> "req_dname"

\* The signing blocks the requests of the model carry, each as the set of
\* the fields it has: every choice of the four fields the worker reads
\* back, and a block that has a distinguished name alone.
SigningFieldSets ==
  SUBSET {"keystoreUrl", "keystorePassword", "keyPassword", "keyAlias"} \cup {{"dname"}}

Block(fs) == [f \in SigningFields |-> IF f \in fs THEN FieldValue(f) ELSE Absent]

\* config["signing"]: absent (present = FALSE) or a dict, possibly empty.
SigningConfigs ==
  {[present |-> FALSE, f |-> Block({})]} \cup
  {[present |-> TRUE, f |-> Block(fs)] : fs \in SigningFieldSets}

\* dict.get(key, default)
Get(block, key, default) == IF block[key] = Absent THEN default ELSE block[key]

\* Truth value of a dict: it has at least one key.
Truthy(s) == s.present /\ \E k \in SigningFields : s.f[k] # Absent

\* config["app"] of the requests of the build model: a new package, the
\* version fields left alone.
RequestedApp ==
  [versionCode |-> NoInt, versionName |-> NoStr, applicationId |-> Some(<<"b", "a">>)]

\* config["overrides"] of the requests of the build model that supply
\* overrides: one for the string tables, one for every XML file.
SuppliedOverrides ==
  <<[type |-> "string", search |-> <<"a">>, replace |-> <<"b">>],
    [type |-> "resource", search |-> <<"b", "a">>, replace |-> <<"b">>]>>

\* An APK-mode request. projectSourceUrl and the name, logo and colour
\* fields are given by whether they are supplied.
ApkRequests ==
  [sourceType : {"APK"}, buildType : {"APK", "AAB", "BOTH"},
   projectSourceUrl : BOOLEAN, name : BOOLEAN, logoUrl : BOOLEAN,
   colors : BOOLEAN, overrides : {<<>>, SuppliedOverrides}, app : {RequestedApp},
   signing : SigningConfigs]

\* A source-mode request: process_source_build reads none of
\* projectSourceUrl, app, branding and overrides.
SourceRequests ==
  [sourceType : {"SOURCE"}, buildType : {"APK", "AAB", "BOTH"},
   projectSourceUrl : {FALSE}, name : {FALSE}, logoUrl : {FALSE},
   colors : {FALSE}, overrides : {<<>>}, app : {RequestedApp},
   signing : SigningConfigs]

Requests == ApkRequests \cup SourceRequests

ExitCodes == {0, 1}

Res(ok) == IF ok THEN "ok" ELSE "fail"

--------------------------------------------------------------------------
VARIABLES
  req,      \* the BuildRequest
  signing,  \* config["signing"] in memory (ensure_keystore writes to it)
  pc,       \* where handle_build is
  exc,      \* the exception propagating in handle_build: [kind, text]
  log,      \* the posts made to the progress reporter, in order
  trace,    \* external calls made (tools, downloads, uploads, ...), in order
  files,    \* the scratch directory: file name -> content
  scratch,  \* the scratch directory exists
  urls,     \* the keys of the artifact dict built so far
  conv,     \* outcome of the bundle conversion
  outputs,  \* source mode: artifact kinds found under app/build/outputs
  manifest, \* AndroidManifest.xml of the decompiled tree
  flavor,   \* the signing block of the flavor configuration the backend holds
  prev,     \* what an earlier build of the flavor persisted
  other,    \* the builds of the flavor under way: which one is running, the
            \* one suspended at an await, and who wrote the flavor configuration
  unit      \* the arguments and results of a function called on its own

vars == <<req, signing, pc, exc, log, trace, files, scratch, urls, conv, outputs,
          manifest, flavor, prev, other, unit>>

NoExc == [kind |-> "none", text |-> <<>>]

NoFiles == [n \in {} |-> <<>>]

\* The manifest inside the package of the build model.
PackagedManifest ==
  [package |-> <<"a">>, versionCode |-> <<"1">>, versionName |-> <<"a">>,
   elem |-> [tag |-> "uses-permission", name |-> <<"a", "b">>, authorities |-> <<>>]]

\* No earlier build of the flavor.
NoPrev ==
  [persisted |-> FALSE, signing |-> [present |-> FALSE, f |-> Block({})], keytool |-> <<>>]

NoUnit == <<>>

\* One build under way, none suspended, the flavor configuration not
\* written yet.
OneBuild == [cur |-> "b1", started |-> FALSE, locals |-> <<>>, writers |-> <<>>]

\* handle_build has made the scratch directory (tempfile.mkdtemp).
Init ==
  /\ req \in Requests
  /\ signing = req.signing
  /\ pc = "start"
  /\ exc = NoExc
  /\ log = <<>>
  /\ trace = <<>>
  /\ files = NoFiles
  /\ scratch = TRUE
  /\ urls = {}
  /\ conv = "none"
  /\ outputs = {}
  /\ manifest = PackagedManifest
  /\ flavor = req.signing
  /\ prev = NoPrev
  /\ other = OneBuild
  /\ unit = NoUnit

--------------------------------------------------------------------------
(* The primitives.  Each takes the state s it starts from (a record of the
   variables plus halt: an exception has left the step) and returns the
   state it leaves. *)

Cur ==
  [signing |-> signing, pc |-> pc, exc |-> exc, log |-> log, trace |-> trace,
   files |-> files, scratch |-> scratch, urls |-> urls, conv |-> conv,
   outputs |-> outputs, manifest |-> manifest, flavor |-> flavor, other |-> other,
   halt |-> FALSE]

Apply(s) ==
  /\ signing' = s.signing
  /\ pc' = s.pc
  /\ exc' = s.exc
  /\ log' = s.log
  /\ trace' = s.trace
  /\ files' = s.files
  /\ scratch' = s.scratch
  /\ urls' = s.urls
  /\ conv' = s.conv
  /\ outputs' = s.outputs
  /\ manifest' = s.manifest
  /\ flavor' = s.flavor
  /\ other' = s.other
  /\ UNCHANGED <<req, prev, unit>>

\* raise: control goes to the enclosing handler.
Throw(s, kind, text, handler) ==
  [s EXCEPT !.pc = handler, !.exc = [kind |-> kind, text |-> text], !.halt = TRUE]

Goto(s, p) == IF s.halt THEN s ELSE [s EXCEPT !.pc = p]

Called(s, call) == [s EXCEPT !.trace = Append(@, call)]

WriteFile(s, name, content) ==
  IF s.halt THEN s
  ELSE [s EXCEPT !.files = [n \in DOMAIN @ \cup {name} |->
                              IF n = name THEN content ELSE @[n]]]

\* await append_logs(build_id, message, status): one POST; a transport
\* error raises (the response status is not looked at). acked: the call
\* returned.
append_logs(s, message, status, text, sent, handler) ==
  IF s.halt THEN s
  ELSE LET s1 == [s EXCEPT !.log = Append(@, [msg |-> message, status |-> status,
                                               text |-> text, acked |-> sent])]
       IN IF sent THEN s1 ELSE Throw(s1, "reporter", TransportErrText, handler)

\* A run_cmd that does not look at the return code.
run_cmd_IgnoresExit(s, cmd, exit, out, handler) ==
  IF s.halt THEN s ELSE Called(s, <<"run">> \o cmd \o <<Res(exit = 0)>>)

\* run_cmd(cmd, cwd): a non-zero return code raises RuntimeError with the
\* command and the captured output.
run_cmd(s, cmd, exit, out, handler) ==
  IF s.halt THEN s
  ELSE LET s1 == Called(s, <<"run">> \o cmd \o <<Res(exit = 0)>>)
       IN IF exit # 0 THEN Throw(s1, "tool", <<"c", "d">> \o out, handler) ELSE s1

\* await download_to_file(url, dest): the blob client, then HTTP; it raises
\* when the HTTP request fails.
download_to_file(s, what, dest, content, ok, text, handler) ==
  IF s.halt THEN s
  ELSE LET s1 == Called(s, <<"download", what, Res(ok)>>)
       IN IF ok THEN WriteFile(s1, dest, content)
          ELSE Throw(s1, "download", text, handler)

\* An upload_to_blob that returns a URL whether or not the blob was stored.
upload_to_blob_NeverRaises(s, name, prefix, ok, text, handler) ==
  IF s.halt THEN s ELSE Called(s, <<"upload", name, prefix, Res(ok)>>)

\* upload_to_blob(path, prefix)
upload_to_blob(s, name, prefix, ok, text, handler) ==
  IF s.halt THEN s
  ELSE LET s1 == Called(s, <<"upload", name, prefix, Res(ok)>>)
       IN IF ok THEN s1 ELSE Throw(s1, "upload", text, handler)

\* urls[key] = ...
SetUrl(s, key) == IF s.halt THEN s ELSE [s EXCEPT !.urls = @ \cup {key}]

--------------------------------------------------------------------------
(* File contents *)

ZipContent == <<"zip">>
ApkContent == <<"pkg", "original">>
TreeContent == <<"tree">>
UnsignedContent == <<"pkg", "unaligned", "unsigned">>
Aligned(c) == <<c[1], "aligned", c[3]>>
Signed(c) == <<c[1], c[2], "signed">>
BundleContent == <<"bundle">>
FetchedKeystore(url) == <<"keystore", "fetched", url>>

\* The key pair keytool -genkeypair makes is new at every run: the pair the
\* running build generates.
GeneratedKey == IF other.cur = "b1" THEN "key_1" ELSE "key_2"

GeneratedKeystore(alias, storePass, keyPass) ==
  <<"keystore", "generated", alias, storePass, keyPass, GeneratedKey>>

\* The URL upload_to_blob returns for the generated keystore: the blob name
\* holds a uuid4, so each upload has its own.
GeneratedKeystoreUrl ==
  IF other.cur = "b1" THEN "gen_keystore_url_1" ELSE "gen_keystore_url_2"

--------------------------------------------------------------------------
(* handle_build, first step *)

\* handle_build: the RUNNING post, then the branch on sourceType.
StartBuild ==
  /\ pc = "start"
  /\ \E sent \in BOOLEAN :
       Apply(Goto(append_logs(Cur, "Starting worker build", "RUNNING", <<>>, sent, "except"),
                  IF req.sourceType = "APK" THEN "apk_acquire" ELSE "src_download"))

--------------------------------------------------------------------------
(* process_apk_build *)

\* An upload of the package for buildType APK alone.
AfterSign_ApkOnly == IF req.buildType = "APK" THEN "upload_apk" ELSE "convert"

\* The step that follows each stage: a patch stage whose field the
\* configuration does not supply is skipped.
AfterSign == IF req.buildType \in {"APK", "BOTH"} THEN "upload_apk" ELSE "convert"
AfterOverrides == "rebuild"
AfterColors == IF req.overrides # <<>> THEN "patch_overrides" ELSE AfterOverrides
AfterIcon == IF req.colors THEN "patch_colors" ELSE AfterColors
AfterName == IF req.logoUrl THEN "patch_icon" ELSE AfterIcon
AfterManifest == IF req.name THEN "patch_name" ELSE AfterName

\* Step 1, the post that opens it.
AcquireTree_Begin ==
  /\ pc = "apk_acquire"
  /\ \E sent \in BOOLEAN :
       Apply(Goto(append_logs(Cur,
                    IF req.projectSourceUrl THEN "Downloading pre-decompiled source"
                    ELSE "Downloading APK", "", <<>>, sent, "except"),
                  "apk_download"))

\* A step 1 that downloads the original package whatever the request holds.
AcquireTree_Download_Package ==
  /\ pc = "apk_download"
  /\ \E ok \in BOOLEAN, text \in IOErrTexts :
       Apply(Goto(download_to_file(Cur, "sourceUrl", "input.apk", ApkContent,
                                   ok, text, "except"),
                  "apk_extract"))

\* Step 1, the download: the decompiled zip when projectSourceUrl is given,
\* the original package otherwise.
AcquireTree_Download ==
  /\ pc = "apk_download"
  /\ \E ok \in BOOLEAN, text \in IOErrTexts :
       Apply(Goto(IF req.projectSourceUrl
                  THEN download_to_file(Cur, "projectSourceUrl", "source.zip", ZipContent,
                                        ok, text, "except")
                  ELSE download_to_file(Cur, "sourceUrl", "input.apk", ApkContent,
                                        ok, text, "except"),
                  "apk_extract"))

\* Step 1, unzip or apktool d into decompiled/.
AcquireTree_Extract ==
  /\ pc = "apk_extract"
  /\ \E sent \in BOOLEAN, exit \in ExitCodes, out \in ToolOutputs :
       LET s1 == append_logs(Cur,
                   IF req.projectSourceUrl THEN "Extracting decompiled source"
                   ELSE "Decompiling APK with apktool", "", <<>>, sent, "except")
           s2 == IF req.projectSourceUrl
                 THEN run_cmd(s1, <<"unzip", "source.zip", "decompiled">>, exit, out, "except")
                 ELSE run_cmd(s1, <<"apktool_d", "input.apk", "decompiled">>, exit, out, "except")
       IN Apply(Goto(WriteFile(s2, "decompiled", TreeContent), "patch_manifest"))

\* A patcher applied to the tree; parsed says the XML it must parse is
\* well-formed (apply_manifest_changes does not catch ET.ParseError).
Patched(s, which, parsed) ==
  IF s.halt THEN s
  ELSE LET s1 == Called(s, <<"patch", which, Res(parsed)>>)
       IN IF parsed THEN s1 ELSE Throw(s1, "patch", FixedErrText, "except")

\* Step 2: apply_manifest_changes.
PatchManifest ==
  /\ pc = "patch_manifest"
  /\ \E sent \in BOOLEAN, parsed \in BOOLEAN :
       LET s1 == Patched(append_logs(Cur, "Applying manifest changes", "", <<>>, sent, "except"),
                         "manifest", parsed)
           s2 == IF s1.halt THEN s1
                 ELSE [s1 EXCEPT !.manifest = apply_manifest_changes(@, req.app)]
       IN Apply(Goto(s2, AfterManifest))

\* Step 3: apply_app_name (it catches ET.ParseError itself).
PatchName ==
  /\ pc = "patch_name"
  /\ \E sent \in BOOLEAN :
       Apply(Goto(Patched(append_logs(Cur, "Setting app name", "", <<>>, sent, "except"),
                          "name", TRUE),
                  AfterName))

\* Step 4, the post that opens it.
PatchIcon_Begin ==
  /\ pc = "patch_icon"
  /\ \E sent \in BOOLEAN :
       Apply(Goto(append_logs(Cur, "Replacing app icon with custom logo", "", <<>>, sent, "except"),
                  "icon_download"))

\* Step 4, apply_logo: download the logo, copy it over the launcher icons,
\* remove the downloaded file.
PatchIcon_Apply ==
  /\ pc = "icon_download"
  /\ \E ok \in BOOLEAN, text \in IOErrTexts :
       LET s1 == download_to_file(Cur, "logoUrl", "decompiled", TreeContent, ok, text, "except")
       IN Apply(Goto(Patched(s1, "icon", TRUE), AfterIcon))

\* Step 5: apply_colors (it catches ET.ParseError itself).
PatchColors ==
  /\ pc = "patch_colors"
  /\ \E sent \in BOOLEAN :
       Apply(Goto(Patched(append_logs(Cur, "Applying color overrides", "", <<>>, sent, "except"),
                          "colors", TRUE),
                  AfterColors))

\* Step 6: apply_custom_overrides.
PatchOverrides ==
  /\ pc = "patch_overrides"
  /\ \E sent \in BOOLEAN :
       LET s1 == Patched(append_logs(Cur, "Applying custom override(s)", "", <<>>, sent, "except"),
                         "overrides", TRUE)
           s2 == IF s1.halt THEN s1
                 ELSE [s1 EXCEPT !.manifest = OverrideManifest(@, req.overrides)]
       IN Apply(Goto(s2, AfterOverrides))

\* Step 7: apktool b decompiled -o unsigned.apk.
Rebuild ==
  /\ pc = "rebuild"
  /\ \E sent \in BOOLEAN, exit \in ExitCodes, out \in ToolOutputs :
       LET s1 == append_logs(Cur, "Rebuilding APK with apktool", "", <<>>, sent, "except")
           s2 == run_cmd(s1, <<"apktool_b", "decompiled", "unsigned.apk">>, exit, out, "except")
       IN Apply(Goto(WriteFile(s2, "unsigned.apk", UnsignedContent), "align"))

\* A zipalign_apk that goes on whatever zipalign returned.
zipalign_apk_NeverRaises(s, input_apk, output_apk, exit, out) ==
  IF s.halt THEN s
  ELSE WriteFile(Called(s, <<"run", "zipalign", input_apk, output_apk, Res(exit = 0)>>),
                 output_apk, Aligned(s.files[input_apk]))

\* zipalign_apk(input_apk, output_apk)
zipalign_apk(s, input_apk, output_apk, exit, out) ==
  IF s.halt THEN s
  ELSE LET s1 == run_cmd(s, <<"zipalign", input_apk, output_apk>>, exit, out, "except")
       IN WriteFile(s1, output_apk, Aligned(s.files[input_apk]))

\* Step 8: zipalign unsigned.apk into aligned.apk.
Align ==
  /\ pc = "align"
  /\ \E sent \in BOOLEAN, exit \in ExitCodes, out \in ToolOutputs :
       LET s1 == append_logs(Cur, "Zipaligning APK", "", <<>>, sent, "except")
       IN Apply(Goto(zipalign_apk(s1, "unsigned.apk", "aligned.apk", exit, out), "sign"))

--------------------------------------------------------------------------
(* Signing helpers *)

NoSigning == [present |-> FALSE, f |-> Block({})]

\* A get_signing_config that finds no signing configuration.
get_signing_config_None(cfg) == NoSigning

\* get_signing_config(config): config.get("signing"), None when it is
\* missing or falsy (an empty dict is falsy).
get_signing_config(cfg) == IF Truthy(cfg) THEN cfg ELSE NoSigning

\* The credentials ensure_keystore generates the keystore with.
GenStorePass(cfg) == Get(cfg.f, "keystorePassword", "changeit")
GenKeyPass(cfg) == Get(cfg.f, "keyPassword", GenStorePass(cfg))
GenAlias(cfg) == Get(cfg.f, "keyAlias", "whitelabel")

\* The step ensure_keystore returns to.
KeystoreReady ==
  IF req.sourceType = "APK" THEN "sign_apk"
  ELSE IF req.buildType \in {"APK", "BOTH"} THEN "src_assemble" ELSE "src_bundle"

\* An ensure_keystore that generates whatever the configuration holds.
KeystoreUrlGiven_Never(cfg) == FALSE

\* ensure_keystore's branch: keystore_url = signing_cfg.get("keystoreUrl"),
\* if keystore_url: fetch.
KeystoreUrlGiven(cfg) == cfg.f["keystoreUrl"] # Absent

\* ensure_keystore, to its first await: the post, and on the generation
\* path keytool -genkeypair.
ensure_keystore_Begin ==
  /\ pc = "ks_begin"
  /\ \E sent \in BOOLEAN, exit \in ExitCodes, out \in ToolOutputs :
       LET cfg == get_signing_config(signing) IN
       IF KeystoreUrlGiven(cfg)
       THEN Apply(Goto(append_logs(Cur, "Downloading keystore", "", <<>>, sent, "except"),
                       "ks_download"))
       ELSE LET s1 == append_logs(Cur, "Generating new keystore", "", <<>>, sent, "except")
                s2 == run_cmd(s1, <<"keytool", GenAlias(cfg), GenStorePass(cfg), GenKeyPass(cfg)>>,
                              exit, out, "except")
                s3 == WriteFile(s2, "keystore.jks",
                                GeneratedKeystore(GenAlias(cfg), GenStorePass(cfg), GenKeyPass(cfg)))
            IN Apply(Goto(s3, "ks_upload"))

\* ensure_keystore, the fetch of the supplied keystore.
ensure_keystore_Download ==
  /\ pc = "ks_download"
  /\ \E ok \in BOOLEAN, text \in IOErrTexts :
       Apply(Goto(download_to_file(Cur, "keystoreUrl", "keystore.jks",
                                   FetchedKeystore(signing.f["keystoreUrl"]),
                                   ok, text, "except"),
                  KeystoreReady))

\* A new configuration that does not record where the keystore went.
NewSigning_NoUrl(cfg, url) ==
  [present |-> TRUE,
   f |-> [cfg.f EXCEPT !["keystorePassword"] = Get(cfg.f, "keystorePassword", "changeit"),
                       !["keyAlias"] = Get(cfg.f, "keyAlias", "whitelabel"),
                       !["keyPassword"] = Get(cfg.f, "keyPassword",
                                              Get(cfg.f, "keystorePassword", "changeit"))]]

\* new_config = current_config.copy() is a shallow copy: new_config["signing"]
\* is the dict signing_cfg names, so the four assignments write to it.
NewSigning(cfg, url) ==
  [present |-> TRUE,
   f |-> [cfg.f EXCEPT !["keystoreUrl"] = url,
                       !["keystorePassword"] = GenStorePass(cfg),
                       !["keyAlias"] = GenAlias(cfg),
                       !["keyPassword"] = GenKeyPass(cfg)]]

\* ensure_keystore, the upload of the generated keystore and the new
\* configuration.
ensure_keystore_Upload ==
  /\ pc = "ks_upload"
  /\ \E sent \in BOOLEAN, ok \in BOOLEAN, text \in IOErrTexts :
       LET s1 == append_logs(Cur, "Uploading keystore to storage", "", <<>>, sent, "except")
           s2 == upload_to_blob(s1, "keystore.jks", "keystores", ok, text, "except")
           s3 == IF s2.halt THEN s2
                 ELSE [s2 EXCEPT !.signing = NewSigning(signing, GeneratedKeystoreUrl)]
       IN Apply(Goto(s3, "ks_save"))

\* A flavor store that keeps the first keystore written to it.
update_flavor_config_KeepFirst(s, cfg, ok) ==
  IF s.halt THEN s
  ELSE LET s1 == [s EXCEPT !.trace = Append(@, <<"update_flavor_config", cfg.f["keystoreUrl"],
                                                 cfg.f["keystorePassword"], cfg.f["keyAlias"],
                                                 cfg.f["keyPassword"], IF ok THEN "ok" ELSE "fail">>)]
       IN IF ok
          THEN [s1 EXCEPT !.flavor = IF @.f["keystoreUrl"] = "absent" THEN cfg ELSE @,
                          !.other.writers = Append(@, s.other.cur)]
          ELSE [s1 EXCEPT !.pc = "except",
                          !.exc = [kind |-> "flavor_store", text |-> <<"c">>], !.halt = TRUE]

\* await update_flavor_config(flavor_id, config): one PATCH, which makes
\* config the configuration of the flavor; a transport error raises.
update_flavor_config(s, cfg, ok) ==
  IF s.halt THEN s
  ELSE LET s1 == Called(s, <<"update_flavor_config", cfg.f["keystoreUrl"],
                            cfg.f["keystorePassword"], cfg.f["keyAlias"],
                            cfg.f["keyPassword"], Res(ok)>>)
       IN IF ok THEN [s1 EXCEPT !.flavor = cfg, !.other.writers = Append(@, s.other.cur)]
          ELSE Throw(s1, "flavor_store", TransportErrText, "except")

\* ensure_keystore, the post before the configuration is saved.
ensure_keystore_Save ==
  /\ pc = "ks_save"
  /\ \E sent \in BOOLEAN :
       Apply(Goto(append_logs(Cur, "Saving unique signing config to flavor", "", <<>>,
                              sent, "except"),
                  "ks_patch"))

\* ensure_keystore, the write of the flavor configuration.
ensure_keystore_Persist ==
  /\ pc = "ks_patch"
  /\ \E ok \in BOOLEAN :
       Apply(Goto(update_flavor_config(Cur, signing, ok), KeystoreReady))

\* sign_apk's credentials: signing_cfg["keystorePassword"],
\* signing_cfg["keyPassword"], signing_cfg["keyAlias"].
SignCredentials(cfg) ==
  <<cfg.f["keystorePassword"], cfg.f["keyPassword"], cfg.f["keyAlias"]>>

\* sign_apk(input_apk, output_apk, keystore, signing_cfg): a missing
\* credential raises KeyError; otherwise apksigner runs on the input,
\* whatever it holds.
sign_apk(s, input_apk, output_apk, keystore, cfg, exit, out) ==
  IF s.halt THEN s
  ELSE LET cred == SignCredentials(cfg) IN
       IF \E i \in 1..3 : cred[i] = Absent
       THEN Throw(s, "config", KeyErrText, "except")
       ELSE LET s1 == run_cmd(s, <<"apksigner", input_apk, output_apk>> \o cred
                                   \o s.files[keystore], exit, out, "except")
            IN WriteFile(s1, output_apk, Signed(s.files[input_apk]))

\* The fields of an apksigner call in the trace.
SignInput(e) == e[3]
SignOutput(e) == e[4]
SignStorePass(e) == e[5]
SignKeyPass(e) == e[6]
SignAlias(e) == e[7]
SignKeystore(e) == SubSeq(e, 8, Len(e) - 1)

\* The package step 9 signs.
SignStageInput_Unaligned == "unsigned.apk"

SignStageInput == "aligned.apk"

\* Step 9, to its first await: the post, and without a signing
\* configuration the copy of the aligned package.
Sign_Begin ==
  /\ pc = "sign"
  /\ \E sent \in BOOLEAN :
       IF get_signing_config(signing).present
       THEN Apply(Goto(append_logs(Cur, "Signing APK with apksigner (v1+v2+v3)", "", <<>>,
                                   sent, "except"),
                       "ks_begin"))
       ELSE LET s1 == append_logs(Cur, "No signing config provided; copying unsigned APK",
                                  "", <<>>, sent, "except")
                s2 == IF s1.halt THEN s1
                      ELSE Called(s1, <<"copyfile", "aligned.apk", "signed.apk">>)
            IN Apply(Goto(WriteFile(s2, "signed.apk", files["aligned.apk"]), AfterSign))

\* Step 9, sign_apk(aligned_apk, signed_apk, keystore, signing_cfg).
Sign_Apk ==
  /\ pc = "sign_apk"
  /\ \E exit \in ExitCodes, out \in ToolOutputs :
       Apply(Goto(sign_apk(Cur, SignStageInput, "signed.apk", "keystore.jks", signing,
                           exit, out),
                  AfterSign))

--------------------------------------------------------------------------
(* Step 10 of process_apk_build: uploads and the bundle conversion *)

\* if payload.buildType in ("APK", "BOTH"): upload the signed package.
UploadApk ==
  /\ pc = "upload_apk"
  /\ \E sent \in BOOLEAN, ok \in BOOLEAN, text \in IOErrTexts :
       LET s1 == append_logs(Cur, "Uploading APK to storage", "", <<>>, sent, "except")
           s2 == upload_to_blob(s1, "signed.apk", "apk", ok, text, "except")
       IN Apply(Goto(SetUrl(s2, "apk"),
                     IF req.buildType = "BOTH" THEN "convert" ELSE "success"))

\* if payload.buildType in ("AAB", "BOTH"): the post, then
\* _convert_apk_to_aab to its first await: is bundletool.jar there.
Convert_Begin ==
  /\ pc = "convert"
  /\ \E sent \in BOOLEAN, jar \in BOOLEAN :
       LET s1 == append_logs(Cur, "Generating AAB from APK", "", <<>>, sent, "except")
           s2 == IF s1.halt THEN s1
                 ELSE Called(s1, <<"bundletool_exists", Res(jar)>>)
       IN Apply(Goto(s2, IF jar THEN "conv_build" ELSE "conv_absent"))

\* _convert_apk_to_aab without the tool: a post, return None.
Convert_Absent ==
  /\ pc = "conv_absent"
  /\ \E sent \in BOOLEAN :
       LET s1 == append_logs(Cur, "bundletool not found, skipping AAB generation", "", <<>>,
                             sent, "except")
       IN Apply(Goto(IF s1.halt THEN s1 ELSE [s1 EXCEPT !.conv = "absent"], "conv_fallback"))

\* A conversion whose try has no except clause.
ConvertHandler_Propagates == "except"

\* The handler of the try block of _convert_apk_to_aab: except Exception.
ConvertHandler == "conv_except"

\* _convert_apk_to_aab, the try block: the post, the copy, bundletool
\* build-bundle, and whether output.aab is there afterwards.
Convert_Build ==
  /\ pc = "conv_build"
  /\ \E sent \in BOOLEAN, exit \in ExitCodes, out \in ToolOutputs, made \in BOOLEAN :
       LET s1 == append_logs(Cur, "Building AAB with bundletool", "", <<>>, sent, ConvertHandler)
           s2 == WriteFile(s1, "base.zip", s1.files["signed.apk"])
           s3 == run_cmd(s2, <<"bundletool", "base.zip", "output.aab">>, exit, out, ConvertHandler)
           s4 == IF s3.halt THEN s3
                 ELSE IF made THEN [WriteFile(s3, "output.aab", BundleContent) EXCEPT !.conv = "ok"]
                 ELSE [s3 EXCEPT !.conv = "missing"]
       IN Apply(Goto(s4, IF made THEN "upload_aab" ELSE "conv_fallback"))

\* The text of the message the except clause of _convert_apk_to_aab posts:
\* f"AAB conversion failed: {e}\nFalling back to APK only.\n"
ConvertFailureText(e) == <<"c", "d">> \o e \o <<"d", "c", "d">>

\* _convert_apk_to_aab, the except clause: a post, return None.
Convert_Except ==
  /\ pc = "conv_except"
  /\ \E sent \in BOOLEAN :
       LET s0 == [Cur EXCEPT !.exc = NoExc, !.conv = "failed"]
           s1 == append_logs(s0, "AAB conversion failed", "", ConvertFailureText(exc.text),
                             sent, "except")
       IN Apply(Goto(s1, "conv_fallback"))

\* The bundle is there: upload it.
UploadAab ==
  /\ pc = "upload_aab"
  /\ \E sent \in BOOLEAN, ok \in BOOLEAN, text \in IOErrTexts :
       LET s1 == append_logs(Cur, "Uploading AAB to storage", "", <<>>, sent, "except")
           s2 == upload_to_blob(s1, "output.aab", "aab", ok, text, "except")
       IN Apply(Goto(SetUrl(s2, "aab"), "success"))

\* No bundle: the warning, and the signed package under the apk key unless
\* it is there already.
Convert_Fallback ==
  /\ pc = "conv_fallback"
  /\ \E sent \in BOOLEAN, ok \in BOOLEAN, text \in IOErrTexts :
       LET s1 == append_logs(Cur, "WARNING: AAB generation not available. Uploading APK instead",
                             "", <<>>, sent, "except")
           s2 == IF "apk" \in urls THEN s1
                 ELSE SetUrl(upload_to_blob(s1, "signed.apk", "apk", ok, text, "except"), "apk")
       IN Apply(Goto(s2, "success"))

--------------------------------------------------------------------------
(* handle_build, the end *)

\* The SUCCESS post, then return.
Succeed ==
  /\ pc = "success"
  /\ \E sent \in BOOLEAN :
       Apply(Goto(append_logs(Cur, "Build completed successfully", "SUCCESS", <<>>, sent, "except"),
                  "finally"))

\* The text of the FAILED post: f"Build failed: {_sanitize_log(str(exc))}\n"
FailureText(e) == <<"c", "d">> \o _sanitize_log(e) \o <<"d">>

\* except Exception: the FAILED post, then raise HTTPException. An error of
\* the post itself leaves the handler the same way.
Fail ==
  /\ pc = "except"
  /\ \E sent \in BOOLEAN :
       LET s1 == append_logs(Cur, "Build failed", "FAILED", FailureText(exc.text), sent, "finally")
       IN Apply(Goto([s1 EXCEPT !.exc = exc], "finally"))

\* A cleanup that runs only when the build succeeded.
Cleanup_OnSuccessOnly(s) ==
  IF s.exc.kind = "none"
  THEN [Called(s, <<"rmtree">>) EXCEPT !.files = NoFiles, !.scratch = FALSE]
  ELSE s

\* shutil.rmtree(tmpdir, ignore_errors=True)
Cleanup(s) == [Called(s, <<"rmtree">>) EXCEPT !.files = NoFiles, !.scratch = FALSE]

\* finally: the scratch directory is removed; the handler returns or raises.
Finally ==
  /\ pc = "finally"
  /\ Apply(Goto(Cleanup(Cur), "done"))

--------------------------------------------------------------------------
(* process_source_build *)

ArtifactKinds == {"apk", "aab"}

\* The post that opens the download of the source archive.
Source_Begin ==
  /\ pc = "src_download"
  /\ \E sent \in BOOLEAN :
       Apply(Goto(append_logs(Cur, "Downloading source archive", "", <<>>, sent, "except"),
                  "src_fetch"))

\* The download of the source archive.
Source_Download ==
  /\ pc = "src_fetch"
  /\ \E ok \in BOOLEAN, text \in IOErrTexts :
       Apply(Goto(download_to_file(Cur, "sourceUrl", "source.zip", ZipContent, ok, text, "except"),
                  "src_extract"))

\* unzip, the check for the Gradle wrapper, and the branch on the signing
\* configuration. The archive may carry build outputs of its own.
Source_Extract ==
  /\ pc = "src_extract"
  /\ \E sent \in BOOLEAN, exit \in ExitCodes, out \in ToolOutputs, gradlew \in BOOLEAN,
        carried \in SUBSET ArtifactKinds :
       LET s1 == append_logs(Cur, "Extracting source code", "", <<>>, sent, "except")
           s2 == WriteFile(run_cmd(s1, <<"unzip", "source.zip", "source">>, exit, out, "except"),
                           "source", TreeContent)
           s3 == IF s2.halt THEN s2
                 ELSE IF ~gradlew THEN Throw(s2, "source", FixedErrText, "except")
                 ELSE [s2 EXCEPT !.outputs = carried]
       IN Apply(Goto(s3, IF get_signing_config(signing).present THEN "src_prep"
                         ELSE IF req.buildType \in {"APK", "BOTH"} THEN "src_assemble"
                         ELSE "src_bundle"))

\* if signing_cfg: the post, then ensure_keystore.
Source_PrepareSigning ==
  /\ pc = "src_prep"
  /\ \E sent \in BOOLEAN :
       Apply(Goto(append_logs(Cur, "Preparing signing configuration", "", <<>>, sent, "except"),
                  "ks_begin"))

\* if payload.buildType in ("APK", "BOTH"): ./gradlew assembleRelease.
Source_Assemble ==
  /\ pc = "src_assemble"
  /\ \E sent \in BOOLEAN, exit \in ExitCodes, out \in ToolOutputs, made \in BOOLEAN :
       LET s1 == append_logs(Cur, "Running Gradle assembleRelease for APK", "", <<>>, sent, "except")
           s2 == run_cmd(s1, <<"gradlew", "assembleRelease">>, exit, out, "except")
           s3 == IF s2.halt \/ ~made THEN s2 ELSE [s2 EXCEPT !.outputs = @ \cup {"apk"}]
       IN Apply(Goto(s3, IF req.buildType = "BOTH" THEN "src_bundle" ELSE "src_select"))

\* if payload.buildType in ("AAB", "BOTH"): ./gradlew bundleRelease.
Source_Bundle ==
  /\ pc = "src_bundle"
  /\ \E sent \in BOOLEAN, exit \in ExitCodes, out \in ToolOutputs, made \in BOOLEAN :
       LET s1 == append_logs(Cur, "Running Gradle bundleRelease for AAB", "", <<>>, sent, "except")
           s2 == run_cmd(s1, <<"gradlew", "bundleRelease">>, exit, out, "except")
           s3 == IF s2.halt \/ ~made THEN s2 ELSE [s2 EXCEPT !.outputs = @ \cup {"aab"}]
       IN Apply(Goto(s3, "src_select"))

\* An upload of one found artifact under its key.
UploadFound(s, kind, ok, text) ==
  SetUrl(upload_to_blob(s, kind, "gradle", ok, text, "except"), kind)

\* The artifact selection: APK and AAB want their own artifact; BOTH
\* uploads what is there and fails when nothing is.
Source_Select ==
  /\ pc = "src_select"
  /\ \E ok1 \in BOOLEAN, ok2 \in BOOLEAN, text \in IOErrTexts :
       IF req.buildType = "APK"
       THEN Apply(IF "apk" \notin outputs THEN Throw(Cur, "artifact", FixedErrText, "except")
                  ELSE Goto(Cur, "src_upload"))
       ELSE IF req.buildType = "AAB"
       THEN Apply(IF "aab" \notin outputs THEN Throw(Cur, "artifact", FixedErrText, "except")
                  ELSE Goto(Cur, "src_upload"))
       ELSE LET s1 == IF "apk" \in outputs THEN UploadFound(Cur, "apk", ok1, text) ELSE Cur
                s2 == IF "aab" \in outputs THEN UploadFound(s1, "aab", ok2, text) ELSE s1
                s3 == IF ~s2.halt /\ s2.urls = {}
                      THEN Throw(s2, "artifact", FixedErrText, "except") ELSE s2
            IN Apply(Goto(s3, "success"))

\* APK or AAB: the post that names the artifact, and its upload.
Source_Upload ==
  /\ pc = "src_upload"
  /\ \E sent \in BOOLEAN, ok \in BOOLEAN, text \in IOErrTexts :
       LET kind == IF req.buildType = "APK" THEN "apk" ELSE "aab"
           s1 == append_logs(Cur, "Uploading artifact to storage", "", <<>>, sent, "except")
       IN Apply(Goto(UploadFound(s1, kind, ok, text), "success"))

--------------------------------------------------------------------------
Next ==
  \/ StartBuild
  \/ AcquireTree_Begin \/ AcquireTree_Download \/ AcquireTree_Extract
  \/ PatchManifest \/ PatchName \/ PatchIcon_Begin \/ PatchIcon_Apply
  \/ PatchColors \/ PatchOverrides
  \/ Rebuild \/ Align
  \/ Sign_Begin \/ Sign_Apk
  \/ ensure_keystore_Begin \/ ensure_keystore_Download \/ ensure_keystore_Upload
  \/ ensure_keystore_Save \/ ensure_keystore_Persist
  \/ UploadApk \/ Convert_Begin \/ Convert_Absent \/ Convert_Build \/ Convert_Except
  \/ UploadAab \/ Convert_Fallback
  \/ Source_Begin \/ Source_Download \/ Source_Extract \/ Source_PrepareSigning
  \/ Source_Assemble \/ Source_Bundle \/ Source_Select \/ Source_Upload
  \/ Succeed \/ Fail \/ Finally

Spec == Init /\ [][Next]_vars

--------------------------------------------------------------------------
(* sign_apk called on its own, on a package that is or is not aligned *)

SignInputs == {UnsignedContent, Aligned(UnsignedContent)}

SignKeystores ==
  {FetchedKeystore(FieldValue("keystoreUrl")),
   GeneratedKeystore("whitelabel", "changeit", "changeit")}

SignInit ==
  /\ req \in {r \in ApkRequests : r.buildType = "APK" /\ r.signing.present
                /\ ~r.projectSourceUrl /\ ~r.name /\ ~r.logoUrl /\ ~r.colors /\ r.overrides = <<>>}
  /\ signing = req.signing
  /\ pc = "call_sign_apk"
  /\ other = OneBuild
  /\ exc = NoExc
  /\ log = <<>>
  /\ trace = <<>>
  /\ \E input \in SignInputs, ks \in SignKeystores :
       files = [n \in {"in.apk", "keystore.jks"} |-> IF n = "in.apk" THEN input ELSE ks]
  /\ scratch = TRUE
  /\ urls = {}
  /\ conv = "none"
  /\ outputs = {}
  /\ manifest = PackagedManifest
  /\ flavor = req.signing
  /\ prev = NoPrev
  /\ unit = NoUnit

\* sign_apk(in.apk, out.apk, keystore.jks, signing_cfg); an exception leaves
\* pc at "except".
SignCall ==
  /\ pc = "call_sign_apk"
  /\ \E exit \in ExitCodes, out \in ToolOutputs :
       Apply(Goto(sign_apk(Cur, "in.apk", "out.apk", "keystore.jks", signing, exit, out),
                  "returned"))

SignNext == SignCall

SignSpec == SignInit /\ [][SignNext]_vars

--------------------------------------------------------------------------
(* Reading the trace and the log *)

IsRun(e, tool) == e[1] = "run" /\ e[2] = tool

Result(e) == e[Len(e)]

Runs(tool) == {i \in 1..Len(trace) : IsRun(trace[i], tool)}

Calls(op) == {i \in 1..Len(trace) : trace[i][1] = op}

Statuses == {log[i].status : i \in 1..Len(log)}

Messages == {log[i].msg : i \in 1..Len(log)}

LastStatus == IF log = <<>> THEN "" ELSE log[Len(log)].status

\* handle_build has returned its result (it did not raise).
Returned == pc = "done" /\ exc.kind = "none"

--------------------------------------------------------------------------
(* C1 *)

--------------------------------------------------------------------------
(* C2 *)

\* C2: sign_apk called on a package that has not been aligned raises and
\* writes no signed package.
C2_SignRejectsUnaligned ==
  (pc # "call_sign_apk" /\ files["in.apk"][2] = "unaligned") =>
    (pc = "except" /\ "out.apk" \notin DOMAIN files)

--------------------------------------------------------------------------
(* C3 *)

\* The stage of the orchestrator's state machine a call belongs to:
\* 1 AcquireTree, 2 PatchManifest, 3 PatchName, 4 PatchIcon, 5 PatchColors,
\* 6 PatchOverrides, 7 Rebuild, 8 Align, 9 Sign, 10 ConvertToBundle,
\* 12 Upload, 13 the cleanup.
StageOf(e) ==
  CASE e[1] = "download" /\ e[2] \in {"projectSourceUrl", "sourceUrl"} -> 1
    [] e[1] = "run" /\ e[2] \in {"unzip", "apktool_d"} -> 1
    [] e[1] = "patch" /\ e[2] = "manifest" -> 2
    [] e[1] = "patch" /\ e[2] = "name" -> 3
    [] e[1] = "download" /\ e[2] = "logoUrl" -> 4
    [] e[1] = "patch" /\ e[2] = "icon" -> 4
    [] e[1] = "patch" /\ e[2] = "colors" -> 5
    [] e[1] = "patch" /\ e[2] = "overrides" -> 6
    [] e[1] = "run" /\ e[2] = "apktool_b" -> 7
    [] e[1] = "run" /\ e[2] = "zipalign" -> 8
    [] e[1] = "download" /\ e[2] = "keystoreUrl" -> 9
    [] e[1] = "run" /\ e[2] \in {"keytool", "apksigner"} -> 9
    [] e[1] = "upload" /\ e[3] = "keystores" -> 9
    [] e[1] \in {"update_flavor_config", "copyfile"} -> 9
    [] e[1] = "bundletool_exists" -> 10
    [] e[1] = "run" /\ e[2] = "bundletool" -> 10
    [] e[1] = "upload" -> 12
    [] OTHER -> 13

\* C3: in an APK-mode build the calls are made stage by stage in the order
\* of the state machine: no call of an earlier stage follows a call of a
\* later one (so no upload precedes the bundle conversion).
C3_StagesInOrder ==
  req.sourceType = "APK" =>
    \A i, j \in 1..Len(trace) : i < j => StageOf(trace[i]) <= StageOf(trace[j])

--------------------------------------------------------------------------
(* C4 *)

\* C4: when handle_build has returned or raised, the scratch directory and
\* everything in it is gone.
C4_ScratchDestroyed ==
  pc = "done" => (~scratch /\ DOMAIN files = {})

\* The build failed because a post to the reporter failed, and the FAILED
\* post failed too.
C4_Witness ==
  /\ pc = "done"
  /\ ~scratch
  /\ exc.kind = "reporter"
  /\ log[Len(log)].status = "FAILED"
  /\ ~log[Len(log)].acked

--------------------------------------------------------------------------
(* C5 *)

FatalTools == {"unzip", "apktool_d", "apktool_b", "zipalign", "apksigner", "keytool", "gradlew"}

\* A failed call of a stage that is not best-effort: a download, or a
\* non-zero exit of a tool other than the bundle tool.
FatalCall(e) ==
  /\ Result(e) = "fail"
  /\ \/ e[1] = "download"
     \/ e[1] = "run" /\ e[2] \in FatalTools

\* C5: once a download has failed or a tool of a stage that is not
\* best-effort has exited non-zero, the build is in its failure handler or
\* past it, the only call made afterwards is the cleanup, SUCCESS has not
\* been posted, and once the handler has posted, its last post carries FAILED.
C5_FatalFailureHalts ==
  \A i \in 1..Len(trace) :
    FatalCall(trace[i]) =>
      /\ pc \in {"except", "finally", "done"}
      /\ \A k \in (i + 1)..Len(trace) : trace[k] = <<"rmtree">>
      /\ "SUCCESS" \notin Statuses
      /\ pc \in {"finally", "done"} => LastStatus = "FAILED"

C5_Witness ==
  /\ pc = "done"
  /\ \E i \in Runs("apktool_b") : FatalCall(trace[i])
  /\ LastStatus = "FAILED"
  /\ log[Len(log)].acked

--------------------------------------------------------------------------
(* C6 *)

\* C6: no post the progress reporter has acknowledged carries text that
\* holds a URL.
C6_NoUrlReported ==
  \A i \in 1..Len(log) : log[i].acked => ~ContainsUrl(log[i].text)

--------------------------------------------------------------------------
(* C7 *)

\* Both artifacts can be produced: the conversion made a bundle (APK mode),
\* the build outputs hold a package and a bundle (source mode).
BothProducible ==
  IF req.sourceType = "APK" THEN conv = "ok" ELSE outputs = ArtifactKinds

\* C7: a build that returns its artifact set returns exactly the key apk
\* for buildType APK, and both keys for buildType BOTH when both outputs
\* can be produced.
C7_ArtifactKeys ==
  Returned =>
    /\ req.buildType = "APK" => urls = {"apk"}
    /\ (req.buildType = "BOTH" /\ BothProducible) => urls = {"apk", "aab"}

C7_Witness ==
  /\ Returned
  /\ req.sourceType = "APK"
  /\ req.buildType = "BOTH"
  /\ conv = "ok"
  /\ urls = {"apk", "aab"}

--------------------------------------------------------------------------
(* C8 *)

\* The bundle tool is missing or the conversion failed: the jar is not
\* there, the try block raised, or it left no bundle.
ConversionFailed ==
  \/ conv \in {"absent", "failed", "missing"}
  \/ \E i \in 1..Len(trace) :
       \/ trace[i] = <<"bundletool_exists", "fail">>
       \/ IsRun(trace[i], "bundletool") /\ Result(trace[i]) = "fail"

\* C8: in an APK-mode build whose bundle conversion is unavailable or has
\* failed, the build does not fail for it (only a later upload or post can
\* fail it), and when it returns, the warning has been posted, the signed
\* package has been uploaded under the apk key, that is the only key, and the
\* last post is SUCCESS.
C8_ConversionBestEffort ==
  (req.sourceType = "APK" /\ ConversionFailed /\ pc = "done") =>
    /\ exc.kind \in {"none", "reporter", "upload"}
    /\ exc.kind = "none" =>
         /\ LastStatus = "SUCCESS"
         /\ urls = {"apk"}
         /\ "WARNING: AAB generation not available. Uploading APK instead" \in Messages
         /\ \E i \in Calls("upload") : trace[i] = <<"upload", "signed.apk", "apk", "ok">>

C8_Witness ==
  /\ Returned
  /\ req.buildType = "AAB"
  /\ conv = "failed"
  /\ \E i \in Runs("bundletool") : Result(trace[i]) = "fail"
  /\ urls = {"apk"}

--------------------------------------------------------------------------
(* C9 *)

\* C9: when the request's signing block has a keystoreUrl, keytool is never
\* run, nothing is uploaded under keystores, the flavor configuration is
\* never written, the configuration in memory stays the request's, and every
\* apksigner call uses the fetched keystore with the request's credentials.
C9_FetchOnly ==
  (req.signing.present /\ req.signing.f["keystoreUrl"] # Absent) =>
    /\ Runs("keytool") = {}
    /\ \A i \in Calls("upload") : trace[i][3] # "keystores"
    /\ Calls("update_flavor_config") = {}
    /\ signing = req.signing
    /\ \A i \in Runs("apksigner") :
         /\ SignStorePass(trace[i]) = req.signing.f["keystorePassword"]
         /\ SignKeyPass(trace[i]) = req.signing.f["keyPassword"]
         /\ SignAlias(trace[i]) = req.signing.f["keyAlias"]
         /\ SignKeystore(trace[i]) = FetchedKeystore(req.signing.f["keystoreUrl"])

C9_Witness ==
  /\ req.signing.f["keystoreUrl"] # Absent
  /\ \E i \in Runs("apksigner") : Result(trace[i]) = "ok"
  /\ Returned

--------------------------------------------------------------------------
(* C10 *)

\* The keystore was generated once, persisted once and used to sign, with
\* one set of credentials throughout.
GeneratedPersistedAndUsed ==
  /\ Cardinality(Runs("keytool")) = 1
  /\ Cardinality(Calls("update_flavor_config")) = 1
  /\ Cardinality(Runs("apksigner")) = 1
  /\ \E g \in Runs("keytool"), w \in Calls("update_flavor_config"), x \in Runs("apksigner") :
       LET alias == trace[g][3]
           storePass == trace[g][4]
           keyPass == trace[g][5]
       IN /\ g < w /\ w < x
          /\ trace[w] = <<"update_flavor_config", GeneratedKeystoreUrl, storePass, alias,
                          keyPass, "ok">>
          /\ SignKeystore(trace[x]) = GeneratedKeystore(alias, storePass, keyPass)
          /\ SignStorePass(trace[x]) = storePass
          /\ SignKeyPass(trace[x]) = keyPass
          /\ SignAlias(trace[x]) = alias

\* C10: an APK-mode build that returns, and whose configuration has a
\* signing block without keystoreUrl (whatever else the block holds, nothing
\* included), has generated a keystore, written it to the flavor
\* configuration exactly once and signed with it and with the credentials it
\* was generated with and that were persisted.
C10_GeneratedOnceAndUsed ==
  (req.sourceType = "APK" /\ req.signing.present /\ req.signing.f["keystoreUrl"] = Absent
     /\ Returned) => GeneratedPersistedAndUsed

--------------------------------------------------------------------------
(* C11: a later build of the same flavor *)

\* The requests of the two-build model: the name, logo, colour and override
\* fields are supplied together or not at all.
FlavorInit ==
  /\ Init
  /\ req.name = req.logoUrl /\ req.name = req.colors /\ req.name = (req.overrides # <<>>)

\* handle_build is entered again for the flavor, after a build that wrote
\* the flavor configuration: the new request carries the configuration the
\* backend holds, the rest of the request is the same.
NextBuild ==
  /\ pc = "done"
  /\ ~prev.persisted
  /\ \E w \in Calls("update_flavor_config"), g \in Runs("keytool") :
       /\ Result(trace[w]) = "ok"
       /\ prev' = [persisted |-> TRUE, signing |-> flavor, keytool |-> trace[g]]
  /\ req' = [req EXCEPT !.signing = flavor]
  /\ signing' = flavor
  /\ pc' = "start"
  /\ exc' = NoExc
  /\ log' = <<>>
  /\ trace' = <<>>
  /\ files' = NoFiles
  /\ scratch' = TRUE
  /\ urls' = {}
  /\ conv' = "none"
  /\ outputs' = {}
  /\ manifest' = PackagedManifest
  /\ UNCHANGED <<flavor, other, unit>>

FlavorNext == Next \/ NextBuild

FlavorSpec == FlavorInit /\ [][FlavorNext]_vars

\* C11: in a build that runs with the configuration an earlier build of the
\* flavor generated and persisted, keytool is never run, nothing is uploaded
\* under keystores, the flavor configuration is never written and stays what
\* the earlier build persisted, the keystore is fetched from the persisted
\* URL, and every apksigner call uses that keystore with the alias and the
\* passwords the earlier build generated its keystore with.
C11_LaterBuildReuses ==
  prev.persisted =>
    /\ Runs("keytool") = {}
    /\ \A i \in Calls("upload") : trace[i][3] # "keystores"
    /\ Calls("update_flavor_config") = {}
    /\ flavor = prev.signing
    /\ "keystore.jks" \in DOMAIN files =>
         files["keystore.jks"] = FetchedKeystore(prev.signing.f["keystoreUrl"])
    /\ \A i \in Runs("apksigner") :
         /\ SignKeystore(trace[i]) = FetchedKeystore(prev.signing.f["keystoreUrl"])
         /\ SignAlias(trace[i]) = prev.keytool[3]
         /\ SignStorePass(trace[i]) = prev.keytool[4]
         /\ SignKeyPass(trace[i]) = prev.keytool[5]

C11_Witness ==
  /\ prev.persisted
  /\ Returned
  /\ \E i \in Runs("apksigner") : Result(trace[i]) = "ok"

--------------------------------------------------------------------------
(* C12: two builds of the same flavor under way at once *)

\* The variables of the running build that are its own.
Locals ==
  [req |-> req, signing |-> signing, pc |-> pc, exc |-> exc, log |-> log,
   trace |-> trace, files |-> files, scratch |-> scratch, urls |-> urls,
   conv |-> conv, outputs |-> outputs, manifest |-> manifest]

\* An APK-mode build for buildType APK that has reached step 9 with the
\* signing block cfg: aligned.apk is written; log and trace are kept from
\* here on.
AtSigning(cfg) ==
  [req |-> [sourceType |-> "APK", buildType |-> "APK", projectSourceUrl |-> FALSE,
            name |-> FALSE, logoUrl |-> FALSE, colors |-> FALSE, overrides |-> <<>>,
            app |-> RequestedApp, signing |-> cfg],
   signing |-> cfg, pc |-> "sign", exc |-> NoExc, log |-> <<>>, trace |-> <<>>,
   files |-> [n \in {"aligned.apk"} |-> Aligned(UnsignedContent)],
   scratch |-> TRUE, urls |-> {}, conv |-> "none", outputs |-> {},
   manifest |-> PackagedManifest]

\* The running build continues from the local state l.
Resume(l) ==
  /\ req' = l.req
  /\ signing' = l.signing
  /\ pc' = l.pc
  /\ exc' = l.exc
  /\ log' = l.log
  /\ trace' = l.trace
  /\ files' = l.files
  /\ scratch' = l.scratch
  /\ urls' = l.urls
  /\ conv' = l.conv
  /\ outputs' = l.outputs
  /\ manifest' = l.manifest

\* One build of a flavor is at step 9; the flavor's configuration has a
\* signing block that holds something.
RaceInit ==
  \E cfg \in {c \in SigningConfigs : Truthy(c)} :
    /\ req = AtSigning(cfg).req
    /\ signing = cfg
    /\ pc = "sign"
    /\ exc = NoExc
    /\ log = <<>>
    /\ trace = <<>>
    /\ files = AtSigning(cfg).files
    /\ scratch = TRUE
    /\ urls = {}
    /\ conv = "none"
    /\ outputs = {}
    /\ manifest = PackagedManifest
    /\ flavor = cfg
    /\ prev = NoPrev
    /\ other = OneBuild
    /\ unit = NoUnit

\* A second build of the flavor reaches step 9: its request carries the
\* configuration the backend held when it was sent.  It waits at its await.
Dispatch ==
  /\ ~other.started
  /\ other' = [other EXCEPT !.started = TRUE, !.locals = AtSigning(flavor)]
  /\ UNCHANGED <<req, signing, pc, exc, log, trace, files, scratch, urls, conv, outputs,
                 manifest, flavor, prev, unit>>

\* The event loop leaves the running build at its await and continues the
\* other one: no lock is held across an await.
Switch ==
  /\ other.started
  /\ other' = [other EXCEPT !.cur = IF @ = "b1" THEN "b2" ELSE "b1", !.locals = Locals]
  /\ Resume(other.locals)
  /\ UNCHANGED <<flavor, prev, unit>>

RaceNext ==
  \/ Sign_Begin \/ ensure_keystore_Begin \/ ensure_keystore_Download
  \/ ensure_keystore_Upload \/ ensure_keystore_Save \/ ensure_keystore_Persist
  \/ Sign_Apk \/ Dispatch \/ Switch

RaceSpec == RaceInit /\ [][RaceNext]_vars

Builds == {"b1", "b2"}

\* What build b has called so far.
TraceOf(b) ==
  IF other.cur = b THEN trace ELSE IF other.started THEN other.locals.trace ELSE <<>>

KeyOf(b) == IF b = "b1" THEN "key_1" ELSE "key_2"

UrlOf(b) == IF b = "b1" THEN "gen_keystore_url_1" ELSE "gen_keystore_url_2"

\* Build b has generated a keystore.
Generated(b) ==
  \E i \in 1..Len(TraceOf(b)) : IsRun(TraceOf(b)[i], "keytool") /\ Result(TraceOf(b)[i]) = "ok"

\* Build b has signed its package with the keystore it generated.
SignedWithOwn(b) ==
  \E i \in 1..Len(TraceOf(b)) :
    /\ IsRun(TraceOf(b)[i], "apksigner") /\ Result(TraceOf(b)[i]) = "ok"
    /\ SignKeystore(TraceOf(b)[i])[6] = KeyOf(b)

\* C12: with two builds of a flavor under way, whenever the flavor
\* configuration has been written it holds the keystore URL of the build
\* that wrote last, whatever was written before; and a build that generated
\* a keystore signs with the keystore it generated itself, never with the
\* other build's.
C12_LastWriterWins ==
  /\ other.writers # <<>> =>
       flavor.f["keystoreUrl"] = UrlOf(other.writers[Len(other.writers)])
  /\ \A b \in Builds :
       Generated(b) =>
         \A i \in 1..Len(TraceOf(b)) :
           IsRun(TraceOf(b)[i], "apksigner") =>
             /\ Len(SignKeystore(TraceOf(b)[i])) = Len(GeneratedKeystore("", "", ""))
             /\ SignKeystore(TraceOf(b)[i])[6] = KeyOf(b)

\* Both builds started from a configuration without keystoreUrl, each
\* generated a keystore, each signed with its own, both wrote the flavor
\* configuration, and the configuration holds the second writer's keystore,
\* not the first's.
C12_Witness ==
  /\ other.started
  /\ req.signing.f["keystoreUrl"] = Absent
  /\ other.locals.req.signing.f["keystoreUrl"] = Absent
  /\ \A b \in Builds : Generated(b) /\ SignedWithOwn(b)
  /\ Len(other.writers) = Cardinality(Builds)
  /\ other.writers[1] # other.writers[Len(other.writers)]
  /\ flavor.f["keystoreUrl"] = UrlOf(other.writers[Len(other.writers)])
  /\ flavor.f["keystoreUrl"] # UrlOf(other.writers[1])

--------------------------------------------------------------------------
(* apply_manifest_changes called on its own *)

\* A manifest and a configuration; unit keeps the manifest as it was.
ManifestInit ==
  /\ \E app \in AppConfigs :
       req = [sourceType |-> "APK", buildType |-> "APK", projectSourceUrl |-> FALSE,
              name |-> FALSE, logoUrl |-> FALSE, colors |-> FALSE, overrides |-> <<>>,
              app |-> app, signing |-> NoSigning]
  /\ signing = req.signing
  /\ pc = "call_apply_manifest_changes"
  /\ exc = NoExc
  /\ log = <<>>
  /\ trace = <<>>
  /\ files = NoFiles
  /\ scratch = TRUE
  /\ urls = {}
  /\ conv = "none"
  /\ outputs = {}
  /\ manifest \in Manifests
  /\ flavor = req.signing
  /\ prev = NoPrev
  /\ other = OneBuild
  /\ unit = manifest

\* apply_manifest_changes(decompiled_dir, config)
ManifestCall ==
  /\ pc = "call_apply_manifest_changes"
  /\ pc' = "returned"
  /\ manifest' = apply_manifest_changes(manifest, req.app)
  /\ UNCHANGED <<req, signing, exc, log, trace, files, scratch, urls, conv, outputs,
                 flavor, prev, other, unit>>

ManifestNext == ManifestCall

ManifestSpec == ManifestInit /\ [][ManifestNext]_vars

--------------------------------------------------------------------------
(* C13 *)

\* The positions at which a scan of s from the left finds old, the scan
\* going on behind each occurrence found.
RECURSIVE HitsFrom(_, _, _)
HitsFrom(s, old, i) ==
  IF i > Len(s) THEN <<>>
  ELSE IF Occurs(old, s, i) THEN <<i>> \o HitsFrom(s, old, i + Len(old))
  ELSE HitsFrom(s, old, i + 1)

\* after is before with new at the place of every occurrence of old: the
\* k-th occurrence moved by the k-1 replacements to its left, every other
\* character kept in its place between them.
Renamed(before, after, old, new) ==
  LET h == HitsFrom(before, old, 1)
      d == Len(new) - Len(old)
      hitsBefore(i) == Cardinality({k \in 1..Len(h) : h[k] + Len(old) <= i})
      inHit(i) == \E k \in 1..Len(h) : h[k] <= i /\ i < h[k] + Len(old)
  IN /\ Len(after) = Len(before) + Len(h) * d
     /\ \A k \in 1..Len(h) : Occurs(new, after, h[k] + (k - 1) * d)
     /\ \A i \in 1..Len(before) : ~inHit(i) => after[i + hitsBefore(i) * d] = before[i]

\* The package changes from a non-empty old package to a different one.
PackageRenamed ==
  /\ pc = "returned"
  /\ req.app.applicationId.given /\ req.app.applicationId.v # <<>>
  /\ unit.package # <<>> /\ unit.package # req.app.applicationId.v

\* C13: when the manifest patcher changes the package from a non-empty
\* P_old to a different P_new, the name of a permission, permission-group,
\* permission-tree or uses-permission element and the authorities of a
\* provider have P_new at the place of every occurrence of P_old (found from
\* the left), and are otherwise unchanged: a value that does not hold P_old
\* is unaltered.  No other attribute of an element changes (a provider's
\* name, the name of any other element).
C13_PackageRenamedInPlace ==
  PackageRenamed =>
    LET old == unit.package
        new == req.app.applicationId.v
        e == unit.elem
        f == manifest.elem
    IN /\ manifest.package = new
       /\ f.tag = e.tag
       /\ IF e.tag \in PermissionTags \cup {"uses-permission"}
          THEN Renamed(e.name, f.name, old, new) /\ f.authorities = e.authorities
          ELSE IF e.tag = "provider"
          THEN Renamed(e.authorities, f.authorities, old, new) /\ f.name = e.name
          ELSE f = e
       /\ (~Contains(old, e.name) /\ ~Contains(old, e.authorities)) => f = e

\* A provider whose authorities hold the old package twice, renamed to a
\* longer package.
C13_Witness ==
  /\ PackageRenamed
  /\ unit.elem.tag = "provider"
  /\ Len(HitsFrom(unit.elem.authorities, unit.package, 1)) > 1
  /\ Len(req.app.applicationId.v) > Len(unit.package)
  /\ manifest.elem.authorities # unit.elem.authorities

--------------------------------------------------------------------------
(* C20 *)

\* C20: after the manifest patcher has run, versionCode is the original
\* when the configuration has no versionCode, versionName is the original
\* when it has no versionName, the package is the original when it has no
\* applicationId; and when applicationId is missing or equal to the package
\* the manifest had, no permission name and no provider authority has
\* changed.
C20_AbsentFieldsKeep ==
  pc = "returned" =>
    /\ ~req.app.versionCode.given => manifest.versionCode = unit.versionCode
    /\ ~req.app.versionName.given => manifest.versionName = unit.versionName
    /\ ~req.app.applicationId.given => manifest.package = unit.package
    /\ (~req.app.applicationId.given \/ req.app.applicationId.v = unit.package) =>
         manifest.elem = unit.elem

\* No version fields, applicationId equal to the package, and a permission
\* whose name holds the package.
C20_Witness ==
  /\ pc = "returned"
  /\ ~req.app.versionCode.given /\ ~req.app.versionName.given
  /\ req.app.applicationId.given /\ req.app.applicationId.v = unit.package
  /\ unit.elem.tag = "permission" /\ Contains(unit.package, unit.elem.name)
  /\ manifest = unit

--------------------------------------------------------------------------
(* apply_app_name called twice *)

\* Most children the root of res/values/strings.xml has.
MaxEntries == 2

\* Most calls of apply_app_name in a row.
MaxCalls == 2

\* The variables of a build, which stay as they are while a patcher is
\* called on its own.
BuildVars ==
  <<req, signing, pc, exc, log, trace, files, scratch, urls, conv, outputs, manifest,
    flavor, prev, other>>

\* No build under way.
NoBuild ==
  /\ req = AtSigning(NoSigning).req
  /\ signing = NoSigning
  /\ pc = "call"
  /\ exc = NoExc
  /\ log = <<>>
  /\ trace = <<>>
  /\ files = NoFiles
  /\ scratch = TRUE
  /\ urls = {}
  /\ conv = "none"
  /\ outputs = {}
  /\ manifest = PackagedManifest
  /\ flavor = NoSigning
  /\ prev = NoPrev
  /\ other = OneBuild

\* A child of <resources>: its tag, its name attribute, its text.
Entries == [tag : {"string", "item"}, name : {"app_name", "title"}, text : {<<"a">>, <<"b">>}]

\* res/values/strings.xml, well-formed: missing, or the children of its root.
StringsFiles ==
  {[exists |-> FALSE, entries |-> <<>>]}
  \cup [exists : {TRUE}, entries : UNION {[1..k -> Entries] : k \in 0..MaxEntries}]

\* android:label of <application>: missing, empty, a literal, or a reference.
Labels == {NoStr, Some(<<>>), Some(<<"a">>), Some(<<"@", "a">>)}

\* AndroidManifest.xml, well-formed: missing, without <application>, or
\* with one and its label.
LabelManifests ==
  {[exists |-> FALSE, application |-> FALSE, label |-> NoStr],
   [exists |-> TRUE, application |-> FALSE, label |-> NoStr]}
  \cup [exists : {TRUE}, application : {TRUE}, label : Labels]

\* new_name: empty, a name, a name the tree has already, a name that starts
\* with '@'.
NewNames == {<<>>, <<"b">>, <<"a">>, <<"@", "b">>}

\* A patcher that adds the app_name entry without looking for one.
apply_app_name_Append(tree, new_name) ==
  [tree EXCEPT !.strings.entries =
     Append(@, [tag |-> "string", name |-> "app_name", text |-> new_name])]

\* apply_app_name(decompiled_dir, new_name) on a tree whose two files parse.
apply_app_name(tree, new_name) ==
  IF new_name = <<>> THEN tree
  ELSE
    LET entries == tree.strings.entries
        isAppName(i) == entries[i].tag = "string" /\ entries[i].name = "app_name"
        found == {i \in 1..Len(entries) : isAppName(i)}
        first == CHOOSE i \in found : \A j \in found : i <= j
        strings == IF ~tree.strings.exists THEN tree.strings
                   ELSE IF found # {}
                   THEN [tree.strings EXCEPT !.entries[first].text = new_name]
                   ELSE [tree.strings EXCEPT !.entries =
                           Append(@, [tag |-> "string", name |-> "app_name",
                                      text |-> new_name])]
        label == tree.manifest.label
        truthy == label.given /\ label.v # <<>>
        man == IF ~tree.manifest.exists \/ ~tree.manifest.application THEN tree.manifest
               ELSE IF truthy /\ label.v[1] # "@"
               THEN [tree.manifest EXCEPT !.label = Some(new_name)]
               ELSE IF ~truthy THEN [tree.manifest EXCEPT !.label = Some(new_name)]
               ELSE tree.manifest
    IN [strings |-> strings, manifest |-> man]

\* A well-formed tree and a name; unit.once is the tree after the first call.
NameInit ==
  /\ NoBuild
  /\ \E s \in StringsFiles, m \in LabelManifests, n \in NewNames :
       unit = [tree |-> [strings |-> s, manifest |-> m], name |-> n, calls |-> 0,
               original |-> [strings |-> s, manifest |-> m],
               once |-> [strings |-> s, manifest |-> m]]

\* apply_app_name(decompiled_dir, new_name), again with the same name.
NameCall ==
  /\ unit.calls < MaxCalls
  /\ unit' = [unit EXCEPT !.tree = apply_app_name(@, unit.name),
                          !.calls = @ + 1,
                          !.once = IF unit.calls = 0 THEN apply_app_name(unit.tree, unit.name)
                                   ELSE @]
  /\ UNCHANGED BuildVars

NameNext == NameCall

NameSpec == NameInit /\ [][NameNext]_vars

\* The app_name entries of a strings file.
AppNameEntries(s) ==
  {i \in 1..Len(s.entries) : s.entries[i].tag = "string" /\ s.entries[i].name = "app_name"}

\* C14: on a well-formed tree, after apply_app_name has been called more
\* than once with the same name the tree is what the first call left: no
\* entry of the strings file has changed, there are as many app_name entries
\* as after the first call (none was added), and the application label is
\* the same.
C14_NameIdempotent ==
  unit.calls >= 1 =>
    /\ unit.tree = unit.once
    /\ unit.tree.strings.entries = unit.once.strings.entries
    /\ Cardinality(AppNameEntries(unit.tree.strings)) =
         Cardinality(AppNameEntries(unit.once.strings))
    /\ unit.tree.manifest.label = unit.once.manifest.label

\* The first call added the app_name entry and set a missing label; the
\* second call has run.
C14_Witness ==
  /\ unit.calls > 1
  /\ AppNameEntries(unit.original.strings) = {}
  /\ Cardinality(AppNameEntries(unit.tree.strings)) = 1
  /\ ~unit.original.manifest.label.given
  /\ unit.tree.manifest.label = Some(unit.name)
  /\ unit.tree # unit.original

--------------------------------------------------------------------------
(* _darken_hex called on its own *)

LowerHex == <<"0", "1", "2", "3", "4", "5", "6", "7", "8", "9", "a", "b", "c", "d", "e", "f">>
UpperHex == <<"0", "1", "2", "3", "4", "5", "6", "7", "8", "9", "A", "B", "C", "D", "E", "F">>

HexChars == {LowerHex[i] : i \in 1..Len(LowerHex)} \cup {UpperHex[i] : i \in 1..Len(UpperHex)}

\* The value of a hex digit, in either case.
HexVal(c) == CHOOSE v \in 0..(Len(LowerHex) - 1) : LowerHex[v + 1] = c \/ UpperHex[v + 1] = c

\* int(pair, 16) of two hex digits.
HexPair(p) == Len(LowerHex) * HexVal(p[1]) + HexVal(p[2])

\* f"{v:02x}" of a value below 256.
Format02x(v) == <<LowerHex[(v \div Len(LowerHex)) + 1], LowerHex[(v % Len(LowerHex)) + 1]>>

\* hex_color.lstrip("#")
RECURSIVE lstrip(_)
lstrip(s) == IF s # <<>> /\ s[1] = "#" THEN lstrip(Tail(s)) ELSE s

\* max(0, int(channel * (1 - factor))), the factor in tenths: for the factor
\* 0.2 the product in floating point, truncated, is floor(channel * 8 / 10)
\* for each of the 256 channel values.
Darkened(channel, tenths) ==
  LET v == (channel * (10 - tenths)) \div 10 IN IF v < 0 THEN 0 ELSE v

\* The factor apply_colors darkens colorPrimaryDark by, in tenths (0.2).
DarkenFactor == 2

\* A darkening that forgets the alpha pair.
_darken_hex_NoAlpha(hex_color, factor) ==
  LET h == lstrip(hex_color)
      rgb == IF Len(h) = 8 THEN SubSeq(h, 3, 8) ELSE h
  IN <<"#">> \o Format02x(Darkened(HexPair(SubSeq(rgb, 1, 2)), factor))
            \o Format02x(Darkened(HexPair(SubSeq(rgb, 3, 4)), factor))
            \o Format02x(Darkened(HexPair(SubSeq(rgb, 5, 6)), factor))

\* _darken_hex(hex_color, factor), for six or eight hex digits.
_darken_hex(hex_color, factor) ==
  LET h == lstrip(hex_color)
      alpha == IF Len(h) = 8 THEN SubSeq(h, 1, 2) ELSE <<>>
      rgb == IF Len(h) = 8 THEN SubSeq(h, 3, 8) ELSE h
      r == Darkened(HexPair(SubSeq(rgb, 1, 2)), factor)
      g == Darkened(HexPair(SubSeq(rgb, 3, 4)), factor)
      b == Darkened(HexPair(SubSeq(rgb, 5, 6)), factor)
  IN <<"#">> \o alpha \o Format02x(r) \o Format02x(g) \o Format02x(b)

\* The colours of the model: with or without '#', with or without an alpha
\* pair, every pair of hex digits in either case as the red channel, two
\* values each for green and blue.
Colors ==
  {p \o a \o <<r1, r2>> \o g \o b :
     p \in {<<>>, <<"#">>}, a \in {<<>>, <<"8", "0">>, <<"A", "b">>},
     r1 \in HexChars, r2 \in HexChars,
     g \in {<<"F", "F">>, <<"0", "9">>}, b \in {<<"F", "F">>, <<"3", "c">>}}

ColorInit ==
  /\ NoBuild
  /\ \E c \in Colors : unit = [color |-> c, result |-> <<>>, called |-> FALSE]

\* _darken_hex(primary_color, 0.2)
ColorCall ==
  /\ ~unit.called
  /\ unit' = [unit EXCEPT !.result = _darken_hex(unit.color, DarkenFactor), !.called = TRUE]
  /\ UNCHANGED BuildVars

ColorNext == ColorCall

ColorSpec == ColorInit /\ [][ColorNext]_vars

White == <<"#", "F", "F", "F", "F", "F", "F">>

\* The hex digits of the colour, and whether there are eight of them.
Digits(c) == lstrip(c)
HasAlpha(c) == Len(Digits(c)) = 8
Rgb(c) == IF HasAlpha(c) THEN SubSeq(Digits(c), 3, 8) ELSE Digits(c)
Channel(c, k) == HexPair(SubSeq(Rgb(c), 2 * k - 1, 2 * k))

\* What the result is for every colour: '#', the alpha pair of the input
\* when it has one, and per channel floor(channel * 0.8), never below 0.
DarkenedPerChannel ==
  /\ unit.result[1] = "#"
  /\ Len(Digits(unit.result)) = Len(Digits(unit.color))
  /\ HasAlpha(unit.color) =>
       SubSeq(Digits(unit.result), 1, 2) = SubSeq(Digits(unit.color), 1, 2)
  /\ \A k \in 1..3 :
       /\ Channel(unit.result, k) = (Channel(unit.color, k) * 8) \div 10
       /\ Channel(unit.result, k) >= 0

\* C15 as stated: the result is as above and darken("#FFFFFF", 0.2) is
\* "#CCCCCC".
C15_DarkenUpperCase ==
  unit.called =>
    /\ DarkenedPerChannel
    /\ unit.color = White => unit.result = <<"#", "C", "C", "C", "C", "C", "C">>

\* C15, amended: darkening with factor 0.2 gives '#', the alpha pair of an
\* eight-digit input unchanged, and for each channel floor(channel * 0.8),
\* never below 0, written as two lower-case hex digits:
\* darken("#FFFFFF", 0.2) is "#cccccc".
C15_DarkenLowerCase ==
  unit.called =>
    /\ DarkenedPerChannel
    /\ \A i \in 1..6 : Rgb(unit.result)[i] \in {LowerHex[j] : j \in 1..Len(LowerHex)}
    /\ unit.color = White => unit.result = <<"#", "c", "c", "c", "c", "c", "c">>

\* An eight-digit colour has been darkened.
C15_Witness ==
  /\ unit.called
  /\ HasAlpha(unit.color)
  /\ Channel(unit.color, 1) = 255
  /\ Channel(unit.result, 1) = 204
  /\ SubSeq(Digits(unit.result), 1, 2) = <<"A", "b">>

--------------------------------------------------------------------------
(* apply_custom_overrides called on its own *)

\* Most overrides in a list.
MaxOverrides == 2

\* An override: its type (string, resource, or one the patcher does not
\* know), its search text (possibly empty), its replacement.
Overrides ==
  [type : {"string", "resource", "raw"},
   search : {<<>>, <<"a">>, <<"b">>, <<"a", "b">>}, replace : {<<>>, <<"b">>}]

OverrideLists == UNION {[1..k -> Overrides] : k \in 0..MaxOverrides}

\* The trees of the model: the string tables and the layout vary, the
\* manifest and the smali file hold the text the overrides search for.
Trees ==
  {[path \in TreeFiles |->
      CASE path = "res/values/strings.xml" -> s1
        [] path = "res/values-fr/strings.xml" -> s2
        [] path = "res/layout/main.xml" -> l
        [] OTHER -> <<"a", "b">>] :
     s1 \in {<<"a">>, <<"a", "b", "a">>, <<"b">>},
     s2 \in {<<"a">>, <<"a", "b", "a">>, <<"b">>},
     l \in {<<"a", "b">>, <<"b">>}}

OverrideInit ==
  /\ NoBuild
  /\ \E tree \in Trees, overrides \in OverrideLists :
       unit = [tree |-> tree, overrides |-> overrides, result |-> tree, called |-> FALSE]

\* apply_custom_overrides(decompiled_dir, custom_overrides)
OverrideCall ==
  /\ ~unit.called
  /\ unit' = [unit EXCEPT !.result = apply_custom_overrides(unit.tree, unit.overrides),
                          !.called = TRUE]
  /\ UNCHANGED BuildVars

OverrideNext == OverrideCall

OverrideSpec == OverrideInit /\ [][OverrideNext]_vars

--------------------------------------------------------------------------
(* C16 *)

--------------------------------------------------------------------------
(* C17 *)

\* The overrides of a list that have a search text, in list order.
WithSearch(overrides) ==
  LET hasSearch(o) == o.search # <<>> IN SelectSeq(overrides, hasSearch)

\* C17: the tree a list of overrides leaves is the tree the same list
\* without its empty-search overrides leaves: such an override changes no
\* file and the overrides after it are applied; a list of empty-search
\* overrides alone leaves the tree as it was.
C17_EmptySearchSkipped ==
  unit.called =>
    /\ unit.result = apply_custom_overrides(unit.tree, WithSearch(unit.overrides))
    /\ WithSearch(unit.overrides) = <<>> => unit.result = unit.tree

\* An empty-search override first, then one that changed a file.
C17_Witness ==
  /\ unit.called
  /\ Len(unit.overrides) > 1
  /\ unit.overrides[1].search = <<>>
  /\ unit.result # unit.tree

--------------------------------------------------------------------------
(* C18 *)

\* The artifacts a build type asks for.
Wanted == IF req.buildType = "APK" THEN {"apk"}
          ELSE IF req.buildType = "AAB" THEN {"aab"} ELSE ArtifactKinds

\* C18: a source-mode build does not return normally with a wanted artifact
\* missing from the output directory: APK needs the package, AAB the
\* bundle, BOTH the two of them.
C18_MissingArtifactFatal ==
  (req.sourceType = "SOURCE" /\ Returned) => Wanted \subseteq outputs

--------------------------------------------------------------------------
(* C19 *)

\* An APK-mode request for buildType APK whose configuration has no signing
\* block (or an empty one).
UnsignedApkRequest ==
  req.sourceType = "APK" /\ req.buildType = "APK" /\ ~Truthy(req.signing)

\* Neither the signer nor anything of the keystore manager has been called.
NoSignerNoKeystore ==
  /\ Runs("apksigner") = {}
  /\ Runs("keytool") = {}
  /\ \A i \in Calls("download") : trace[i][2] # "keystoreUrl"
  /\ \A i \in Calls("upload") : trace[i][3] # "keystores"
  /\ Calls("update_flavor_config") = {}
  /\ flavor = req.signing

\* The package delivered is the aligned package, copied: signed.apk, once
\* written, holds what aligned.apk holds, which no signer has touched.
DeliveredIsAlignedCopy ==
  "signed.apk" \in DOMAIN files =>
    /\ files["signed.apk"] = files["aligned.apk"]
    /\ files["signed.apk"] = Aligned(UnsignedContent)
    /\ \E i \in Calls("copyfile") : trace[i] = <<"copyfile", "aligned.apk", "signed.apk">>

\* What is uploaded is signed.apk under apk, and nothing else.
UploadedUnderApkOnly ==
  /\ \A i \in Calls("upload") : trace[i][2] = "signed.apk" /\ trace[i][3] = "apk"
  /\ Returned =>
       /\ urls = {"apk"}
       /\ Cardinality(Calls("upload")) = 1
       /\ LastStatus = "SUCCESS"

\* C19: an APK-mode build for buildType APK without a signing configuration
\* never calls the signer, never generates, fetches, uploads or persists a
\* keystore; what it delivers is a copy of the aligned package, uploaded
\* under apk only; and when it returns, its last post has status SUCCESS
\* and the manifest's package is the applicationId the request asked for.
C19_UnsignedApkBuild ==
  UnsignedApkRequest =>
    /\ NoSignerNoKeystore
    /\ DeliveredIsAlignedCopy
    /\ UploadedUnderApkOnly
    /\ Returned => manifest.package = req.app.applicationId.v

--------------------------------------------------------------------------
(* C21 *)

\* The tree after the overrides of a list from position i on, one
\* single-override call after the other.
RECURSIVE OneAfterTheOther(_, _, _)
OneAfterTheOther(tree, overrides, i) ==
  IF i > Len(overrides) THEN tree
  ELSE OneAfterTheOther(apply_custom_overrides(tree, <<overrides[i]>>), overrides, i + 1)

\* The files an override's type reaches.
Reaches(override, path) ==
  \/ override.type = "string" /\ path \in StringTables
  \/ override.type = "resource" /\ path \in XmlFiles

\* C21: the tree a list of overrides leaves is the tree left by applying
\* its overrides one after the other in list order, each to the files as
\* the earlier ones left them; and in a list of two, a file the second
\* override reaches that holds its search text once the first override is
\* done, in the original file or not, has every occurrence replaced.
C21_OverridesInListOrder ==
  unit.called =>
    /\ unit.result = OneAfterTheOther(unit.tree, unit.overrides, 1)
    /\ Len(unit.overrides) = 2 =>
         LET first == apply_custom_overrides(unit.tree, <<unit.overrides[1]>>)
             second == unit.overrides[2]
         IN \A path \in TreeFiles :
              (Reaches(second, path) /\ second.search # <<>>
                 /\ Contains(second.search, first[path])) =>
                Renamed(first[path], unit.result[path], second.search, second.replace)

\* Two overrides on a string table that does not hold the search text of
\* the second: the first override's replacement produced it, the second
\* replaced it, and the list in the other order leaves another content.
C21_Witness ==
  /\ unit.called
  /\ Len(unit.overrides) = 2
  /\ LET path == "res/values/strings.xml"
         first == apply_custom_overrides(unit.tree, <<unit.overrides[1]>>)
         second == unit.overrides[2]
     IN /\ Reaches(second, path) /\ second.search # <<>>
        /\ ~Contains(second.search, unit.tree[path])
        /\ Contains(second.search, first[path])
        /\ unit.result[path] # first[path]
        /\ unit.result[path] #
             OneAfterTheOther(unit.tree, <<second, unit.overrides[1]>>, 1)[path]

--------------------------------------------------------------------------
(* C22 *)

\* The downloads of a request field in the trace.
Downloads(what) == {i \in Calls("download") : trace[i][2] = what}

\* The calls of a set that succeeded.
Succeeded(calls) == {i \in calls : Result(trace[i]) = "ok"}

\* The build is past step 1: a patcher or the rebuild was called.
TreeAcquired == Calls("patch") # {} \/ Runs("apktool_b") # {}

\* C22: an APK-mode build with projectSourceUrl never runs apktool d and
\* never downloads sourceUrl, and one without it never downloads
\* projectSourceUrl and never unzips; each of the four calls is made at
\* most once, the extraction (unzip, apktool d) only after its download
\* succeeded; and a build that is past step 1 has made the download and
\* the extraction of its path once each, both with success.
C22_OneAcquisitionPath ==
  req.sourceType = "APK" =>
    LET fetch == Downloads(IF req.projectSourceUrl THEN "projectSourceUrl" ELSE "sourceUrl")
        extract == Runs(IF req.projectSourceUrl THEN "unzip" ELSE "apktool_d")
    IN /\ req.projectSourceUrl => Runs("apktool_d") = {} /\ Downloads("sourceUrl") = {}
       /\ ~req.projectSourceUrl => Runs("unzip") = {} /\ Downloads("projectSourceUrl") = {}
       /\ Cardinality(fetch) <= 1 /\ Cardinality(extract) <= 1
       /\ \A i \in extract : \E j \in Succeeded(fetch) : j < i
       /\ TreeAcquired => Cardinality(Succeeded(fetch)) = 1
                            /\ Cardinality(Succeeded(extract)) = 1

\* A build with projectSourceUrl that returned: it downloaded the zip,
\* unzipped it and rebuilt the package.
C22_Witness ==
  /\ Returned
  /\ req.sourceType = "APK" /\ req.projectSourceUrl
  /\ Succeeded(Downloads("projectSourceUrl")) # {}
  /\ Succeeded(Runs("unzip")) # {}
  /\ Succeeded(Runs("apktool_b")) # {}

--------------------------------------------------------------------------
(* C23 *)

\* The runs of a Gradle target in the trace.
Gradle(target) == {i \in Runs("gradlew") : trace[i][3] = target}

\* The calls ensure_keystore returns after: the fetch of the supplied
\* keystore, or the write of the flavor configuration that ends the
\* generation path.
KeystoreAcquired ==
  Succeeded(Downloads("keystoreUrl")) \cup Succeeded(Calls("update_flavor_config"))

\* C23: a source-mode build runs neither zipalign nor apksigner; with a
\* signing configuration (one get_signing_config returns) every Gradle
\* run follows a completed keystore acquisition; assembleRelease and
\* bundleRelease run at most once each, only for the build types that ask
\* for them, and when both are asked for bundleRelease runs only after
\* assembleRelease succeeded.
C23_SourceModeOrder ==
  req.sourceType = "SOURCE" =>
    /\ Runs("zipalign") = {} /\ Runs("apksigner") = {}
    /\ Truthy(req.signing) =>
         \A i \in Runs("gradlew") : \E j \in KeystoreAcquired : j < i
    /\ Cardinality(Gradle("assembleRelease")) <= 1
    /\ Cardinality(Gradle("bundleRelease")) <= 1
    /\ Runs("gradlew") = Gradle("assembleRelease") \cup Gradle("bundleRelease")
    /\ req.buildType = "APK" => Gradle("bundleRelease") = {}
    /\ req.buildType = "AAB" => Gradle("assembleRelease") = {}
    /\ req.buildType = "BOTH" =>
         \A i \in Gradle("bundleRelease") :
           \E j \in Succeeded(Gradle("assembleRelease")) : j < i

\* A source-mode build for both artifacts, with a signing configuration
\* that has no keystoreUrl, that returned: the keystore was generated and
\* saved, then both targets ran.
C23_Witness ==
  /\ Returned
  /\ req.sourceType = "SOURCE" /\ req.buildType = "BOTH"
  /\ Truthy(req.signing) /\ ~KeystoreUrlGiven(req.signing)
  /\ Succeeded(Calls("update_flavor_config")) # {}
  /\ Succeeded(Gradle("assembleRelease")) # {}
  /\ Succeeded(Gradle("bundleRelease")) # {}

--------------------------------------------------------------------------
(* C24 *)

\* The uploads under a prefix in the trace.
Uploads(prefix) == {i \in Calls("upload") : trace[i][3] = prefix}

\* C24: every upload of a keystore follows a successful keytool run, and
\* every write of the flavor configuration follows a successful upload of
\* the keystore, itself after a successful keytool run; each of the three
\* is made at most once; a flavor configuration that differs from the one
\* the build started with was written by a successful write, and the
\* keystoreUrl it holds is the request's or the URL of a successful upload
\* of the generated keystore; after a failed keytool run or a failed
\* keystore upload the flavor configuration is the one the build started
\* with.
C24_PersistAfterStored ==
  LET generate == Runs("keytool")
      store == Uploads("keystores")
      write == Calls("update_flavor_config")
  IN /\ \A i \in store : \E k \in Succeeded(generate) : k < i
     /\ \A i \in write :
          \E j \in Succeeded(store) : j < i /\ \E k \in Succeeded(generate) : k < j
     /\ Cardinality(generate) <= 1 /\ Cardinality(store) <= 1 /\ Cardinality(write) <= 1
     /\ flavor # req.signing => Succeeded(write) # {}
     /\ \/ flavor.f["keystoreUrl"] = req.signing.f["keystoreUrl"]
        \/ flavor.f["keystoreUrl"] = GeneratedKeystoreUrl /\ Succeeded(store) # {}
     /\ (generate \cup store) \ Succeeded(generate \cup store) # {} =>
          flavor = req.signing /\ write = {}

\* A build on the generation path that returned: keytool, the upload and
\* the write succeeded in that order, and the flavor configuration holds
\* the URL of the uploaded keystore.
C24_Witness ==
  /\ Returned
  /\ \E k \in Succeeded(Runs("keytool")), j \in Succeeded(Uploads("keystores")),
        i \in Succeeded(Calls("update_flavor_config")) : k < j /\ j < i
  /\ flavor # req.signing
  /\ flavor.f["keystoreUrl"] = GeneratedKeystoreUrl

--------------------------------------------------------------------------
(* C25 *)

TerminalStatuses == {"SUCCESS", "FAILED"}

\* The posts of the log that carry a terminal status.
TerminalPosts == {i \in 1..Len(log) : log[i].status \in TerminalStatuses}

\* C25: the first post of a build carries RUNNING; a post with a terminal
\* status is the last post of the log; a build that has left the handler
\* posted one terminal status, and no build posts both SUCCESS and
\* FAILED; SUCCESS is posted only with an artifact URL and after every
\* upload the build made succeeded.
C25_OneTerminalStatus ==
  /\ log # <<>> => log[1].status = "RUNNING"
  /\ \A i \in TerminalPosts : i = Len(log)
  /\ pc = "done" => Cardinality(TerminalPosts) = 1
  /\ ~(TerminalStatuses \subseteq Statuses)
  /\ "SUCCESS" \in Statuses =>
       urls # {} /\ Calls("upload") = Succeeded(Calls("upload"))

--------------------------------------------------------------------------
(* C26 *)

\* A call of ensure_keystore: the fetch, keytool, the upload of the
\* keystore, the write of the flavor configuration.
IsKeystoreCall(e) ==
  \/ e[1] = "download" /\ e[2] = "keystoreUrl"
  \/ IsRun(e, "keytool")
  \/ e[1] = "upload" /\ e[3] = "keystores"
  \/ e[1] = "update_flavor_config"

\* A call of steps 1 to 8 of process_apk_build: tree acquisition, the
\* patchers, the rebuild, the alignment.
IsEarlyStageCall(e) ==
  \/ e[1] = "download" /\ e[2] \in {"projectSourceUrl", "sourceUrl", "logoUrl"}
  \/ e[1] = "run" /\ e[2] \in {"unzip", "apktool_d", "apktool_b", "zipalign"}
  \/ e[1] = "patch"

KeystoreCalls == {i \in 1..Len(trace) : IsKeystoreCall(trace[i])}

EarlyStageCalls == {i \in 1..Len(trace) : IsEarlyStageCall(trace[i])}

\* C26: in an APK-mode build every call of ensure_keystore follows a
\* successful apktool b and, after it, a successful zipalign, and follows
\* every call of steps 1 to 8, all of them successful; a build in which a
\* call of steps 1 to 8 failed makes no call of ensure_keystore and leaves
\* the flavor configuration as it was.
C26_KeystoreAfterAlign ==
  req.sourceType = "APK" =>
    LET acquire == KeystoreCalls
        early == EarlyStageCalls
    IN /\ acquire # {} =>
            /\ \E j \in Succeeded(Runs("apktool_b")), k \in Succeeded(Runs("zipalign")) :
                 j < k /\ \A i \in acquire : k < i
            /\ \A e \in early, i \in acquire : e < i
       /\ early # Succeeded(early) => acquire = {} /\ flavor = req.signing

\* An APK-mode build in which zipalign failed after a successful rebuild,
\* with a signing configuration that has no keystoreUrl: the build has
\* left the handler without a keytool run and without a flavor write.
C26_Witness ==
  /\ pc = "done"
  /\ req.sourceType = "APK"
  /\ Truthy(req.signing) /\ ~KeystoreUrlGiven(req.signing)
  /\ Succeeded(Runs("apktool_b")) # {}
  /\ Runs("zipalign") # {} /\ Succeeded(Runs("zipalign")) = {}
  /\ KeystoreCalls = {}
  /\ flavor = req.signing

====
